---- MODULE Spec2Model ----
(* A model of the eino-rag service: the Milvus adapter with its reconnect  *)
(* loop, the document ingestion coordinator over the relational store, and *)
(* the conversation engine with its streaming handler.                     *)
EXTENDS Integers, Sequences, FiniteSets, TLC

(***************************************************************************)
(* Bounds of the model and program constants.                              *)
(***************************************************************************)
MaxDocId == 2             \* cap on the documents.id sequence
MaxMsgs == 4              \* a turn starts only if its pair fits in this length
MaxHistory == 2           \* a turn starts only below this many chat_histories rows

TopK == 2                 \* r.topK, the number of hits asked for
MaxTextLen == 4           \* length of the enumerated texts
MaxChunkSize == 3         \* largest enumerated chunk size
MaxOverlap == 4           \* largest enumerated chunk overlap
MaxContentLen == 5        \* length of the contents given to ProcessText
MaxDocs == 3              \* number of documents given to buildRAGContext
MaxMessageLen == 60       \* length of the first user messages
MaxKeyPointsLen == 5      \* length of the key points put into the fallback reply
ExampleLen == 100         \* length of the unbroken example text
ExampleSize == 10         \* the example's chunk size
ExampleOverlap == 20      \* the example's chunk overlap, beyond the size

HashMultiplier == 31      \* h*31 + uint64(s[i])
MaxIterations == 1000     \* iteration > 1000
BoundaryLookback == 50    \* i > end-50
Second == 1               \* retryDelay := time.Second
MaxRetryDelay == 300      \* maxRetryDelay := 5 * time.Minute, in seconds
ContextLimit == 3000      \* context.Len() > 3000
TitleLimit == 50          \* len(title) > 50

Procs == {"p1", "p2"}                 \* concurrent HTTP requests on documents
KBIds == {1}                          \* knowledge_bases rows at start-up
DocIds == 1 .. MaxDocId
Hashes == {"h1", "h2"}                \* sha256 of the uploaded bytes
\* file names as <<base, extension>>; filepath.Ext gives the second part
Filenames == {<<"a", ".md">>, <<"b", ".txt">>, <<"c", ".exe">>}
AllowedFileTypes == {".pdf", ".txt", ".md", ".markdown", ".json", ".csv", ".html", ".htm"}

Callers == {"a1"}                     \* callers of the adapter's methods
Turns == {"t1", "t2"}                 \* concurrent chat requests
Convs == {"c1"}                       \* conversation ids
Users == {1, 2}                       \* user_id of the authenticated callers
OneUser == {1}                        \* the caller when all turns are one user's
UserMessages == {<<"q">>}              \* request message bodies
\* The chunk.Content sequences an LLM stream may deliver before io.EOF.
Streams == {<< <<"a">>, <<"b">> >>, << <<>>, <<"b">> >>}
Replies == {<<"a">>, <<"b">>}         \* resp.Content values of Generate

VARIABLES
  \* ---- vector store and MilvusRetriever ----
  storeUp,       \* the Milvus server answers RPCs
  vectors,       \* rows of the collection, as <<kb_id, doc_id>>
  isConnected,   \* MilvusRetriever.isConnected
  client,        \* MilvusRetriever.client: "nil", "open" or "closed"
  closed,        \* MilvusRetriever.ctx has been cancelled by Close
  retryDelay,    \* reconnectLoop's retryDelay, in seconds
  loop,          \* position of the reconnectLoop goroutine
  ops,           \* per caller: the adapter method in progress
  \* ---- relational store ----
  kbs,           \* ids of the knowledge_bases rows
  docCount,      \* knowledge_bases.doc_count by id
  docs,          \* documents rows: [id, kb, hash]
  docSeq,        \* last id handed out for documents
  dbConn,        \* holder of the single pooled connection: a process or "free"
  txSnap,        \* rollback journal of the open transaction
  call,          \* per request: the document operation in progress
  \* ---- conversation cache, chat history, chat requests ----
  cache,         \* Redis conversation:{id} -> messages (<<>>: no key)
  owner,         \* Redis conversation:{id} -> its UserID (0: no key)
  history,       \* number of chat_histories rows per conversation id
  turn,          \* per request: the chat turn in progress
  \* ---- document processor ----
  chunker,       \* splitByLength: its arguments and locals
  \* ---- embedding service and its Redis cache ----
  embCfg,        \* EmbeddingService.dimension and useCache
  embCache,      \* Redis: key "embedding:<hash>" -> the stored JSON
  embed,         \* per caller: the EmbedText call in progress
  embedLog,      \* per text: the vector its first storing call returned
  \* ---- ProcessText ----
  processed,     \* the ProcessText call in progress: arguments and results
  sd,            \* per caller: the SearchDocuments call in progress
  rag,           \* the buildRAGContext call in progress: documents and result
  titled,        \* the chat_histories row being written: message and title
  fb,            \* the fallback reply: Chat's string and the stream reader's state
  sysconf        \* system_configs rows, the in-memory Config and the last operation on it

adapterVars == <<storeUp, vectors, isConnected, client, closed, retryDelay, loop>>
dbVars == <<kbs, docCount, docs, docSeq, dbConn, txSnap, call>>
chatVars == <<cache, owner, history, turn>>
chunkVars == <<chunker>>
embedVars == <<embCfg, embCache, embed, embedLog>>
coreVars == <<adapterVars, ops, dbVars, chatVars, chunkVars, embedVars>>
nonOpsVars == <<adapterVars, dbVars, chatVars, chunkVars, embedVars>>
otherVars == <<processed, sd, rag, titled, fb, sysconf>>
restVars == <<chunkVars, embedVars, otherVars>>
vars == <<storeUp, vectors, isConnected, client, closed, retryDelay, loop, ops,
          kbs, docCount, docs, docSeq, dbConn, txSnap, call,
          cache, owner, history, turn, restVars>>

Min(a, b) == IF a < b THEN a ELSE b

(***************************************************************************)
(* MilvusRetriever: connection state and the reconnect loop.               *)
(***************************************************************************)

\* No adapter method in progress. handle is the state of the client object
\* the method's snapshot points to: "none", "open", "swapped" (closed by
\* connect() when it replaced r.client) or "closed" (closed by Close()).
IdleOp == [kind |-> "none", pc |-> "idle", kb |-> 0, doc |-> 0, chunks |-> 0,
           handle |-> "none", embeds |-> 0, calls |-> 0, hits |-> {}, ret |-> ""]

\* NewMilvusRetriever: one connect() attempt, then the loop is started.
AdapterInit ==
  /\ ops = [a \in Callers |-> IdleOp]
  /\ storeUp \in BOOLEAN
  /\ vectors = {}
  /\ isConnected = storeUp
  /\ client = IF storeUp THEN "open" ELSE "nil"
  /\ closed = FALSE
  /\ retryDelay = Second
  /\ loop = "wait"

\* The server becomes unreachable or reachable again (environment).
StoreDown ==
  /\ storeUp
  /\ storeUp' = FALSE
  /\ UNCHANGED <<vectors, isConnected, client, closed, retryDelay, loop>>
  /\ UNCHANGED <<ops, dbVars, chatVars, restVars>>

StoreBack ==
  /\ ~storeUp
  /\ storeUp' = TRUE
  /\ UNCHANGED <<vectors, isConnected, client, closed, retryDelay, loop>>
  /\ UNCHANGED <<ops, dbVars, chatVars, restVars>>

\* IsConnected(): the flag read under the read lock.
IsConnected == isConnected

\* The delay grows by one second instead of doubling.
Backoff_Linear(d) == Min(d + Second, MaxRetryDelay)

\* retryDelay = retryDelay * 2, capped at maxRetryDelay.
Backoff(d) == Min(d * 2, MaxRetryDelay)

\* select: ctx.Done() is ready; the goroutine returns.
LoopExit ==
  /\ loop = "wait"
  /\ closed
  /\ loop' = "exited"
  /\ UNCHANGED <<storeUp, vectors, isConnected, client, closed, retryDelay>>
  /\ UNCHANGED <<ops, dbVars, chatVars, restVars>>

\* select: the timer fires and IsConnected() is false. connect() runs
\* NewClient and ensureCollectionWithClient under r.ctx; on an error the loop
\* doubles its delay. (Only this goroutine writes isConnected, so the read
\* of the flag and the dial are one step.)
ConnectDial ==
  /\ loop = "wait"
  /\ ~IsConnected
  /\ IF storeUp /\ ~closed
       THEN /\ loop' = "swap"
            /\ UNCHANGED retryDelay
       ELSE /\ loop' = "wait"
            /\ retryDelay' = Backoff(retryDelay)
  /\ UNCHANGED <<storeUp, vectors, isConnected, client, closed>>
  /\ UNCHANGED <<ops, dbVars, chatVars, restVars>>

\* client.Close() on the object r.client points to: every snapshot of it
\* held by a method in progress now points to a closed client.
CloseClient(how) ==
  ops' = [a \in Callers |->
            IF ops[a].handle = "open" THEN [ops[a] EXCEPT !.handle = how] ELSE ops[a]]

\* ConnectSwap with the assignment of isConnected left out.
ConnectSwap_NoFlag ==
  /\ loop = "swap"
  /\ client' = "open"
  /\ retryDelay' = Second
  /\ loop' = "wait"
  /\ CloseClient("swapped")
  /\ UNCHANGED <<storeUp, vectors, closed, isConnected>>
  /\ UNCHANGED <<dbVars, chatVars, restVars>>

\* connect(): under the write lock the old client is closed and replaced,
\* isConnected is set; the loop resets its delay.
ConnectSwap ==
  /\ loop = "swap"
  /\ client' = "open"
  /\ isConnected' = TRUE
  /\ retryDelay' = Second
  /\ loop' = "wait"
  /\ CloseClient("swapped")
  /\ UNCHANGED <<storeUp, vectors, closed>>
  /\ UNCHANGED <<dbVars, chatVars, restVars>>

\* select: the timer fires and IsConnected() is true. The health check:
\* HasCollection on the snapshotted client with a 5 s timeout derived from
\* r.ctx; an error marks the adapter disconnected.
HealthProbe ==
  /\ loop = "wait"
  /\ IsConnected
  /\ IF client # "nil" /\ (~storeUp \/ closed \/ client = "closed")
       THEN isConnected' = FALSE
       ELSE UNCHANGED isConnected
  /\ UNCHANGED <<storeUp, vectors, client, closed, retryDelay, loop>>
  /\ UNCHANGED <<ops, dbVars, chatVars, restVars>>

\* Close() that also clears the connected flag.
Close_ClearsFlag ==
  /\ ~closed
  /\ closed' = TRUE
  /\ isConnected' = FALSE
  /\ client' = IF client # "nil" THEN "closed" ELSE client
  /\ CloseClient("closed")
  /\ UNCHANGED <<storeUp, vectors, retryDelay, loop>>
  /\ UNCHANGED <<dbVars, chatVars, restVars>>

\* Close(): cancel the context, close the client under the write lock.
Close ==
  /\ ~closed
  /\ closed' = TRUE
  /\ client' = IF client # "nil" THEN "closed" ELSE client
  /\ CloseClient("closed")
  /\ UNCHANGED <<storeUp, vectors, isConnected, retryDelay, loop>>
  /\ UNCHANGED <<dbVars, chatVars, restVars>>


(***************************************************************************)
(* Relational store: one pooled connection, transactions, rollback.        *)
(***************************************************************************)

NoSnap == [kbs |-> {}, docCount |-> [k \in KBIds |-> 0], docs |-> {}, docSeq |-> 0]
Idle == [op |-> "none", pc |-> "idle", kb |-> 0, hash |-> "", fname |-> <<>>,
         doc |-> 0, ret |-> "", ctx |-> "live", status |-> 0]

\* db.Init and the rows present when the server starts serving.
DBInit ==
  /\ kbs = KBIds
  /\ docCount = [k \in KBIds |-> 0]
  /\ docs = {}
  /\ docSeq = 0
  /\ dbConn = "free"
  /\ txSnap = NoSnap
  /\ call = [p \in Procs |-> Idle]

\* SetMaxOpenConns(1): a statement outside a transaction needs the connection.
ConnFree == dbConn = "free"

\* database.Transaction: BEGIN takes the connection until COMMIT or ROLLBACK.
Begin(p) ==
  /\ ConnFree
  /\ dbConn' = p
  /\ txSnap' = [kbs |-> kbs, docCount |-> docCount, docs |-> docs, docSeq |-> docSeq]

\* The closure returned nil: COMMIT.
Commit ==
  /\ dbConn' = "free"
  /\ txSnap' = NoSnap

\* The closure returned an error: ROLLBACK undoes every statement of the
\* transaction, the id sequence included.
Rollback ==
  /\ kbs' = txSnap.kbs
  /\ docCount' = txSnap.docCount
  /\ docs' = txSnap.docs
  /\ docSeq' = txSnap.docSeq
  /\ dbConn' = "free"
  /\ txSnap' = NoSnap

\* The error value a service call returns, as the chain fmt.Errorf("...: %w")
\* builds: the message of each layer, outermost first. Error() is the chain
\* joined by ": "; a layer made without %w ends the chain.
ErrorChain(op, r) ==
  CASE r = "ok" -> <<>>
    [] op = "upload" /\ r = "unavailable" ->
         <<"vector database is not available, please try again later">>
    [] op = "upload" /\ r = "kb_not_found" -> <<"knowledge base with id {kbID} not found">>
    [] op = "upload" /\ r = "type_not_allowed" -> <<"file type {ext} is not allowed">>
    [] op = "upload" /\ r = "parse_failed" -> <<"failed to parse document", "parser error">>
    [] op = "upload" /\ r = "duplicate" ->
         <<"document already exists in this knowledge base">>
    [] op = "upload" /\ r = "process_failed" ->
         <<"failed to process document", "empty content">>
    [] op = "upload" /\ r = "timeout" ->
         <<"document processing timeout after {IndexTimeout}">>
    [] op = "upload" /\ r = "index_failed" ->
         <<"failed to index document", "milvus or embedding error">>
    [] op = "upload" /\ r = "index_cancelled" ->
         <<"failed to index document", "request error", "context canceled">>
    [] op = "upload" /\ r = "index_deadline" ->
         <<"failed to index document", "request error", "context deadline exceeded">>
    [] op = "deldoc" /\ r = "not_found" -> <<"document not found", "record not found">>
    [] op = "deldoc" /\ r = "vector_failed" ->
         <<"failed to delete from vector database", "milvus error">>
    [] op = "delkb" /\ r = "not_found" -> <<"record not found">>
    [] OTHER -> <<"error">>

\* errors.Is(err, target): some layer of the chain is the target.
ErrorsIs(chain, target) == \E i \in 1 .. Len(chain) : chain[i] = target

\* err.Error() == text: the joined chain is exactly that one message.
ErrorTextIs(chain, text) == chain = <<text>>

\* DocumentHandler.Upload: 200, 408 for an error that is
\* context.DeadlineExceeded, 500 with err.Error() for every other error.
UploadStatus(chain) ==
  IF chain = <<>> THEN 200
  ELSE IF ErrorsIs(chain, "context deadline exceeded") THEN 408
  ELSE 500

\* DocumentHandler.Delete: 200, 404 when err.Error() is "document not
\* found", 500 otherwise.
DeleteStatus(chain) ==
  IF chain = <<>> THEN 200
  ELSE IF ErrorTextIs(chain, "document not found") THEN 404
  ELSE 500

\* KnowledgeBaseHandler.Delete: 200, 404 when err.Error() is "record not
\* found", 500 otherwise.
DeleteKBStatus(chain) ==
  IF chain = <<>> THEN 200
  ELSE IF ErrorTextIs(chain, "record not found") THEN 404
  ELSE 500

\* The status the handler of the operation answers with.
HandlerStatus(op, r) ==
  CASE op = "upload" -> UploadStatus(ErrorChain(op, r))
    [] op = "deldoc" -> DeleteStatus(ErrorChain(op, r))
    [] OTHER -> DeleteKBStatus(ErrorChain(op, r))

\* The service call returns r and the handler writes its response.
Finish(p, r) ==
  call' = [call EXCEPT ![p] = [Idle EXCEPT !.op = call[p].op, !.pc = "done",
                                          !.kb = call[p].kb, !.ret = r,
                                          !.status = HandlerStatus(call[p].op, r)]]
Goto(p, l) == call' = [call EXCEPT ![p] = [@ EXCEPT !.pc = l]]

DocsOfKB(k) == {d \in docs : d.kb = k}
DocsWith(h, k) == {d \in docs : d.hash = h /\ d.kb = k}
VectorsOfKB(k) == {v \in vectors : v[1] = k}
VectorsOfDoc(d) == {v \in vectors : v[2] = d}

(***************************************************************************)
(* Service.UploadDocument                                                  *)
(***************************************************************************)

\* main.go: NewMilvusRetriever never returns an error, so s.retriever is set.
RetrieverIsNil == FALSE

\* DocumentParser.ValidateFileType: the extension is on the allowlist.
ValidateFileType(f) == f[2] \in AllowedFileTypes

\* A request arrives: POST /documents/upload with a file and a kb_id.
UploadCall(p, k, h, f) ==
  /\ call[p].pc = "idle"
  /\ call' = [call EXCEPT ![p] = [Idle EXCEPT !.op = "upload", !.pc = "up_check",
                                               !.kb = k, !.hash = h, !.fname = f]]
  /\ UNCHANGED <<kbs, docCount, docs, docSeq, dbConn, txSnap>>
  /\ UNCHANGED <<adapterVars, ops, chatVars, restVars>>

\* The pre-checks: retriever present, knowledge base row found, file type
\* allowed; then the body is read and hashed.
UploadPreCheck(p) ==
  /\ call[p].pc = "up_check"
  /\ IF RetrieverIsNil
       THEN Finish(p, "unavailable")
       ELSE /\ ConnFree
            /\ IF call[p].kb \notin kbs
                 THEN Finish(p, "kb_not_found")
                 ELSE IF ~ValidateFileType(call[p].fname)
                        THEN Finish(p, "type_not_allowed")
                        ELSE Goto(p, "up_probe")
  /\ UNCHANGED <<kbs, docCount, docs, docSeq, dbConn, txSnap>>
  /\ UNCHANGED <<adapterVars, ops, chatVars, restVars>>

\* UploadProbe with the duplicate probe left out.
UploadProbe_NoProbe(p) ==
  /\ call[p].pc = "up_probe"
  /\ ConnFree
  /\ \E parsed \in BOOLEAN :
       IF parsed THEN Goto(p, "up_begin") ELSE Finish(p, "parse_failed")
  /\ UNCHANGED <<kbs, docCount, docs, docSeq, dbConn, txSnap>>
  /\ UNCHANGED <<adapterVars, ops, chatVars, restVars>>

\* The duplicate probe on (hash, knowledge_base_id), then ParseDocument.
UploadProbe(p) ==
  /\ call[p].pc = "up_probe"
  /\ ConnFree
  /\ IF DocsWith(call[p].hash, call[p].kb) # {}
       THEN Finish(p, "duplicate")
       ELSE \E parsed \in BOOLEAN :
              IF parsed THEN Goto(p, "up_begin") ELSE Finish(p, "parse_failed")
  /\ UNCHANGED <<kbs, docCount, docs, docSeq, dbConn, txSnap>>
  /\ UNCHANGED <<adapterVars, ops, chatVars, restVars>>

\* The transaction opens and tx.Create(doc) inserts the row under a new id.
UploadBegin(p) ==
  /\ call[p].pc = "up_begin"
  /\ docSeq < MaxDocId
  /\ Begin(p)
  /\ docSeq' = docSeq + 1
  /\ docs' = docs \cup {[id |-> docSeq + 1, kb |-> call[p].kb, hash |-> call[p].hash]}
  /\ call' = [call EXCEPT ![p] = [@ EXCEPT !.pc = "up_process", !.doc = docSeq + 1]]
  /\ UNCHANGED <<kbs, docCount>>
  /\ UNCHANGED <<adapterVars, ops, chatVars, restVars>>

\* ProcessText in its goroutine against time.After(IndexTimeout): chunks,
\* an error ("empty content"), or the timeout.
UploadProcess(p) ==
  /\ call[p].pc = "up_process"
  /\ \E outcome \in {"chunks", "error", "timeout"} :
       IF outcome = "chunks"
         THEN /\ Goto(p, "up_add")
              /\ UNCHANGED <<kbs, docCount, docs, docSeq, dbConn, txSnap>>
         ELSE /\ Rollback
              /\ Finish(p, IF outcome = "error" THEN "process_failed" ELSE "timeout")
  /\ UNCHANGED <<adapterVars, ops, chatVars, restVars>>

\* The error of a call made with the request's context once it is done.
CtxError(c) == IF c = "deadline" THEN "index_deadline" ELSE "index_cancelled"

\* AddDocuments: the IsConnected check, then one EmbedText per chunk, whose
\* Redis and HTTP calls fail on a context that is done.
UploadEmbed(p) ==
  /\ call[p].pc = "up_add"
  /\ IF ~IsConnected
       THEN /\ Rollback
            /\ Finish(p, "index_failed")
       ELSE IF call[p].ctx # "live"
       THEN /\ Rollback
            /\ Finish(p, CtxError(call[p].ctx))
       ELSE \E embedded \in BOOLEAN :
              IF embedded
                THEN /\ Goto(p, "up_insert")
                     /\ UNCHANGED <<kbs, docCount, docs, docSeq, dbConn, txSnap>>
                ELSE /\ Rollback
                     /\ Finish(p, "index_failed")
  /\ UNCHANGED <<adapterVars, ops, chatVars, restVars>>

\* UploadInsert outside the transaction closure: an insert error is returned
\* after the rows written so far were committed.
UploadInsert_NoRollback(p) ==
  /\ call[p].pc = "up_insert"
  /\ IF client = "open" /\ storeUp
       THEN /\ vectors' = vectors \cup {<<call[p].kb, call[p].doc>>}
            /\ Goto(p, "up_count")
            /\ UNCHANGED <<kbs, docCount, docs, docSeq, dbConn, txSnap>>
       ELSE /\ Commit
            /\ Finish(p, "index_failed")
            /\ UNCHANGED <<vectors, kbs, docCount, docs, docSeq>>
  /\ UNCHANGED <<storeUp, isConnected, client, closed, retryDelay, loop>>
  /\ UNCHANGED <<ops, chatVars, restVars>>

\* AddDocuments: client.Insert of all rows on the snapshotted client, under
\* a context derived from the request's.
UploadInsert(p) ==
  /\ call[p].pc = "up_insert"
  /\ IF client = "open" /\ storeUp /\ call[p].ctx = "live"
       THEN /\ vectors' = vectors \cup {<<call[p].kb, call[p].doc>>}
            /\ Goto(p, "up_count")
            /\ UNCHANGED <<kbs, docCount, docs, docSeq, dbConn, txSnap>>
       ELSE /\ Rollback
            /\ Finish(p, IF call[p].ctx = "live" THEN "index_failed"
                                                ELSE CtxError(call[p].ctx))
            /\ UNCHANGED vectors
  /\ UNCHANGED <<storeUp, isConnected, client, closed, retryDelay, loop>>
  /\ UNCHANGED <<ops, chatVars, restVars>>

\* UPDATE knowledge_bases SET doc_count = doc_count + 1 WHERE id = ?; zero
\* rows affected is an error; otherwise the closure returns nil and commits.
UploadCount(p) ==
  /\ call[p].pc = "up_count"
  /\ IF call[p].kb \in kbs
       THEN /\ docCount' = [docCount EXCEPT ![call[p].kb] = @ + 1]
            /\ Commit
            /\ Finish(p, "ok")
            /\ UNCHANGED <<kbs, docs, docSeq>>
       ELSE /\ Rollback
            /\ Finish(p, "kb_not_found")
  /\ UNCHANGED <<adapterVars, ops, chatVars, restVars>>

\* The context UploadDocument was given is done while the call runs: the
\* client went away (how = "cancelled") or the handler's five minutes are
\* over (how = "deadline").
UploadCtxDone(p, how) ==
  /\ call[p].op = "upload"
  /\ call[p].pc \notin {"idle", "done"}
  /\ call[p].ctx = "live"
  /\ call' = [call EXCEPT ![p] = [@ EXCEPT !.ctx = how]]
  /\ UNCHANGED <<kbs, docCount, docs, docSeq, dbConn, txSnap>>
  /\ UNCHANGED <<adapterVars, ops, chatVars, restVars>>

(***************************************************************************)
(* Service.DeleteDocument                                                  *)
(***************************************************************************)

\* DELETE /documents/{id} arrives.
DeleteCall(p, d) ==
  /\ call[p].pc = "idle"
  /\ call' = [call EXCEPT ![p] = [Idle EXCEPT !.op = "deldoc", !.pc = "dd_load", !.doc = d]]
  /\ UNCHANGED <<kbs, docCount, docs, docSeq, dbConn, txSnap>>
  /\ UNCHANGED <<adapterVars, ops, chatVars, restVars>>

\* database.First(&doc, docID): the row is loaded outside the transaction.
DeleteLoad(p) ==
  /\ call[p].pc = "dd_load"
  /\ ConnFree
  /\ IF \E r \in docs : r.id = call[p].doc
       THEN LET r == CHOOSE r \in docs : r.id = call[p].doc
            IN call' = [call EXCEPT ![p] = [@ EXCEPT !.pc = "dd_begin", !.kb = r.kb]]
       ELSE Finish(p, "not_found")
  /\ UNCHANGED <<kbs, docCount, docs, docSeq, dbConn, txSnap>>
  /\ UNCHANGED <<adapterVars, ops, chatVars, restVars>>

\* The transaction opens; DeleteByDocument checks IsConnected and returns an
\* error, which the closure returns, when the adapter is not connected.
DeleteBegin(p) ==
  /\ call[p].pc = "dd_begin"
  /\ ConnFree
  /\ IF RetrieverIsNil \/ IsConnected
       THEN /\ Begin(p)
            /\ Goto(p, IF RetrieverIsNil THEN "dd_row" ELSE "dd_vector")
       ELSE /\ Finish(p, "vector_failed")
            /\ UNCHANGED <<dbConn, txSnap>>
  /\ UNCHANGED <<kbs, docCount, docs, docSeq>>
  /\ UNCHANGED <<adapterVars, ops, chatVars, restVars>>

\* DeleteByDocument: client.Delete with doc_id == {docID}.
DeleteVector(p) ==
  /\ call[p].pc = "dd_vector"
  /\ IF client = "open" /\ storeUp
       THEN /\ vectors' = vectors \ VectorsOfDoc(call[p].doc)
            /\ Goto(p, "dd_row")
            /\ UNCHANGED <<kbs, docCount, docs, docSeq, dbConn, txSnap>>
       ELSE /\ Rollback
            /\ Finish(p, "vector_failed")
            /\ UNCHANGED vectors
  /\ UNCHANGED <<storeUp, isConnected, client, closed, retryDelay, loop>>
  /\ UNCHANGED <<ops, chatVars, restVars>>

\* tx.Delete(&doc), then doc_count = doc_count - 1 on the loaded row's
\* knowledge base; the closure returns nil and the transaction commits.
DeleteRow(p) ==
  /\ call[p].pc = "dd_row"
  /\ docs' = {r \in docs : r.id # call[p].doc}
  /\ docCount' = IF call[p].kb \in kbs
                   THEN [docCount EXCEPT ![call[p].kb] = @ - 1]
                   ELSE docCount
  /\ Commit
  /\ Finish(p, "ok")
  /\ UNCHANGED <<kbs, docSeq>>
  /\ UNCHANGED <<adapterVars, ops, chatVars, restVars>>

(***************************************************************************)
(* KnowledgeBaseHandler.Delete                                             *)
(***************************************************************************)

\* DELETE /knowledge-bases/{id} arrives.
DeleteKBCall(p, k) ==
  /\ call[p].pc = "idle"
  /\ call' = [call EXCEPT ![p] = [Idle EXCEPT !.op = "delkb", !.pc = "dk_begin", !.kb = k]]
  /\ UNCHANGED <<kbs, docCount, docs, docSeq, dbConn, txSnap>>
  /\ UNCHANGED <<adapterVars, ops, chatVars, restVars>>

\* The transaction opens; tx.First(&kb) fails for a missing row. Then
\* DeleteByKnowledgeBase checks IsConnected: its error is logged and ignored.
DeleteKBBegin(p) ==
  /\ call[p].pc = "dk_begin"
  /\ ConnFree
  /\ IF call[p].kb \notin kbs
       THEN /\ Finish(p, "not_found")
            /\ UNCHANGED <<dbConn, txSnap>>
       ELSE /\ Begin(p)
            /\ Goto(p, IF ~RetrieverIsNil /\ IsConnected THEN "dk_vector" ELSE "dk_rows")
  /\ UNCHANGED <<kbs, docCount, docs, docSeq>>
  /\ UNCHANGED <<adapterVars, ops, chatVars, restVars>>

\* DeleteByKnowledgeBase: client.Delete with kb_id == {kbID}; an error is
\* logged and the deletion continues.
DeleteKBVector(p) ==
  /\ call[p].pc = "dk_vector"
  /\ vectors' = IF client = "open" /\ storeUp
                  THEN vectors \ VectorsOfKB(call[p].kb)
                  ELSE vectors
  /\ Goto(p, "dk_rows")
  /\ UNCHANGED <<kbs, docCount, docs, docSeq, dbConn, txSnap>>
  /\ UNCHANGED <<storeUp, isConnected, client, closed, retryDelay, loop>>
  /\ UNCHANGED <<ops, chatVars, restVars>>

\* The documents of the knowledge base and its own row are deleted; commit.
DeleteKBRows(p) ==
  /\ call[p].pc = "dk_rows"
  /\ docs' = docs \ DocsOfKB(call[p].kb)
  /\ kbs' = kbs \ {call[p].kb}
  /\ Commit
  /\ Finish(p, "ok")
  /\ UNCHANGED <<docCount, docSeq>>
  /\ UNCHANGED <<adapterVars, ops, chatVars, restVars>>

\* The response has been written; the request slot is free again.
Return(p) ==
  /\ call[p].pc = "done"
  /\ call' = [call EXCEPT ![p] = Idle]
  /\ UNCHANGED <<kbs, docCount, docs, docSeq, dbConn, txSnap>>
  /\ UNCHANGED <<adapterVars, ops, chatVars, restVars>>

(***************************************************************************)
(* MilvusRetriever's methods called on their own: AddDocuments, Retrieve,  *)
(* DeleteByKnowledgeBase, DeleteByDocument.                                *)
(***************************************************************************)

VectorKBs == {1, 2}                   \* kb_id values of inserted rows
SearchKBs == {0, 1, 2}                \* kbID arguments of Retrieve

EndOp(a, r) ==
  ops' = [ops EXCEPT ![a] = [@ EXCEPT !.pc = "done", !.handle = "none", !.ret = r]]

\* A method is entered with its arguments.
OpCall(a, kind, k, d, n) ==
  /\ ops[a].pc = "idle"
  /\ ops' = [ops EXCEPT ![a] =
               [IdleOp EXCEPT !.kind = kind, !.pc = "check", !.kb = k,
                              !.doc = d, !.chunks = n]]
  /\ UNCHANGED <<adapterVars, dbVars, chatVars, restVars>>

\* The method's opening statements, in the code's order: AddDocuments returns
\* nil for an empty list before it looks at the connection; every method
\* returns 'milvus is not connected' when IsConnected() is false.
OpCheck(a) ==
  /\ ops[a].pc = "check"
  /\ IF ops[a].kind = "insert" /\ ops[a].chunks = 0
       THEN EndOp(a, "ok")
       ELSE IF ~IsConnected
              THEN EndOp(a, "not_connected")
              ELSE ops' = [ops EXCEPT ![a] =
                             [@ EXCEPT !.pc = IF ops[a].kind \in {"insert", "search"}
                                               THEN "embed" ELSE "snapshot"]]
  /\ UNCHANGED <<adapterVars, dbVars, chatVars, restVars>>

\* EmbedText for the chunks (AddDocuments) or the query (Retrieve).
OpEmbed(a) ==
  /\ ops[a].pc = "embed"
  /\ \E ok \in BOOLEAN :
       ops' = [ops EXCEPT ![a] =
                 IF ok THEN [@ EXCEPT !.pc = "snapshot", !.embeds = @ + 1]
                       ELSE [@ EXCEPT !.pc = "done", !.embeds = @ + 1,
                                      !.ret = "embed_failed"]]
  /\ UNCHANGED <<adapterVars, dbVars, chatVars, restVars>>

\* r.mu.RLock(); client := r.client; r.mu.RUnlock(); nil is an error.
OpSnapshot(a) ==
  /\ ops[a].pc = "snapshot"
  /\ IF client = "nil"
       THEN EndOp(a, "no_client")
       ELSE ops' = [ops EXCEPT ![a] = [@ EXCEPT !.pc = "call", !.handle = client]]
  /\ UNCHANGED <<adapterVars, dbVars, chatVars, restVars>>

\* Search with no filter expression at all.
SearchFilter_None(k) == vectors

\* expr: "kb_id == {kbID}" when kbID > 0, otherwise empty.
SearchFilter(k) == IF k > 0 THEN {v \in vectors : v[1] = k} ELSE vectors

\* The call on the snapshotted client: Insert, Search or Delete. It fails
\* on a closed client and when the server does not answer.
OpIssue(a) ==
  /\ ops[a].pc = "call"
  /\ IF ops[a].handle = "open" /\ storeUp
       THEN /\ vectors' =
                 CASE ops[a].kind = "insert" -> vectors \cup {<<ops[a].kb, ops[a].doc>>}
                   [] ops[a].kind = "delkb"  -> vectors \ VectorsOfKB(ops[a].kb)
                   [] ops[a].kind = "deldoc" -> vectors \ VectorsOfDoc(ops[a].doc)
                   [] OTHER                  -> vectors
            /\ \E found \in SUBSET SearchFilter(ops[a].kb) :
                 /\ IF ops[a].kind = "search"
                      THEN Cardinality(found) =
                             Min(TopK, Cardinality(SearchFilter(ops[a].kb)))
                      ELSE found = {}
                 /\ ops' = [ops EXCEPT ![a] =
                              [@ EXCEPT !.pc = "done", !.handle = "none",
                                        !.calls = @ + 1, !.hits = found, !.ret = "ok"]]
       ELSE /\ ops' = [ops EXCEPT ![a] =
                         [@ EXCEPT !.pc = "done", !.handle = "none",
                                   !.calls = @ + 1, !.ret = "call_failed"]]
            /\ UNCHANGED vectors
  /\ UNCHANGED <<storeUp, isConnected, client, closed, retryDelay, loop>>
  /\ UNCHANGED <<dbVars, chatVars, restVars>>

\* The method has returned.
OpReturn(a) ==
  /\ ops[a].pc = "done"
  /\ ops' = [ops EXCEPT ![a] = IdleOp]
  /\ UNCHANGED <<adapterVars, dbVars, chatVars, restVars>>

(***************************************************************************)
(* DocumentProcessor.splitByLength, one loop iteration per step. Offsets   *)
(* are the code's: 0-based, a window <<start, end>> is content[start:end]. *)
(***************************************************************************)

Max(a, b) == IF a > b THEN a ELSE b

IdleChunker == [pc |-> "idle", text |-> <<>>, size |-> 0, overlap |-> 0,
                start |-> 0, iteration |-> 0, windows |-> <<>>]

ChunkInit == chunker = IdleChunker

\* content[i]
ByteAt(text, i) == text[i + 1]

\* The word-boundary search: the largest i with start < i <= end,
\* i > end - 50 and content[i] a space or a newline; end when there is none.
BoundaryEnd(text, start, end) ==
  LET found == {i \in (Max(start, end - BoundaryLookback) + 1) .. end :
                  ByteAt(text, i) \in {" ", "\n"}}
  IN IF found = {} THEN end ELSE CHOOSE i \in found : \A j \in found : j <= i

\* nextStart without the forward-progress guard.
NextStart_NoGuard(start, end, overlap) == end - overlap

\* nextStart := end - chunkOverlap, and start + 1 when that is not beyond start.
NextStart(start, end, overlap) ==
  IF end - overlap <= start THEN start + 1 ELSE end - overlap

\* A text of n characters without a space or a newline.
Unbroken(n) == [i \in 1 .. n |-> "x"]

\* The contents splitByLength is called with: every text of letters and
\* spaces up to MaxTextLen, the example text, and one text longer than the
\* loop's iteration limit.
Texts ==
  UNION {[1 .. n -> {"x", " "}] : n \in 0 .. MaxTextLen}
    \cup {Unbroken(ExampleLen), Unbroken(MaxIterations + 2)}

\* The processor's <<chunkSize, chunkOverlap>>.
ChunkConfigs ==
  ((1 .. MaxChunkSize) \X (0 .. MaxOverlap)) \cup {<<ExampleSize, ExampleOverlap>>}

\* splitByLength is entered: content no longer than chunkSize is returned as
\* the single chunk.
ChunkCall(text, size, overlap) ==
  /\ chunker.pc = "idle"
  /\ chunker' = IF Len(text) <= size
                THEN [IdleChunker EXCEPT !.pc = "done", !.text = text, !.size = size,
                                         !.overlap = overlap,
                                         !.windows = <<<<0, Len(text)>>>>]
                ELSE [IdleChunker EXCEPT !.pc = "loop", !.text = text, !.size = size,
                                         !.overlap = overlap]
  /\ UNCHANGED <<adapterVars, ops, dbVars, chatVars, embedVars, otherVars>>

\* One pass of the for loop.
ChunkStep ==
  /\ chunker.pc = "loop"
  /\ LET text == chunker.text
         n == Len(text)
         start == chunker.start
         capped == Min(start + chunker.size, n)
         end == IF capped < n THEN BoundaryEnd(text, start, capped) ELSE capped
     IN chunker' =
          IF ~(start < n)
          THEN [chunker EXCEPT !.pc = "done"]
          ELSE IF chunker.iteration + 1 > MaxIterations
          THEN [chunker EXCEPT !.pc = "done", !.iteration = @ + 1]
          ELSE IF end >= n
          THEN [chunker EXCEPT !.pc = "done", !.iteration = @ + 1,
                               !.windows = Append(@, <<start, end>>)]
          ELSE [chunker EXCEPT !.iteration = @ + 1,
                               !.windows = Append(@, <<start, end>>),
                               !.start = NextStart(start, end, chunker.overlap)]
  /\ UNCHANGED <<adapterVars, ops, dbVars, chatVars, embedVars, otherVars>>

\* The chunks have been returned.
ChunkReturn ==
  /\ chunker.pc = "done"
  /\ chunker' = IdleChunker
  /\ UNCHANGED <<adapterVars, ops, dbVars, chatVars, embedVars, otherVars>>

(***************************************************************************)
(* EmbeddingService.EmbedText and the Redis embedding cache. A text is its *)
(* sequence of bytes; a vector is recorded by its length and by the text   *)
(* and model it embeds.                                                    *)
(***************************************************************************)

\* "Aa", "BB" and "C".
EmbedTexts == {<<65, 97>>, <<66, 66>>, <<67>>}

Embedders == {"e1", "e2"}

\* The configured VECTOR_DIMENSION values, each with its model.
Dims == {2, 3}

RECURSIVE HashFrom(_, _, _)
HashFrom(s, i, h) ==
  IF i > Len(s) THEN h ELSE HashFrom(s, i + 1, h * HashMultiplier + s[i])

\* hashString: h = h*31 + s[i] over the bytes, in uint64. The texts of
\* EmbedTexts have at most two bytes, so h stays far below 2^64 and the
\* wrap-around of uint64 never occurs here.
hashString(s) == HashFrom(s, 1, 0)

CacheKeys == {hashString(t) : t \in EmbedTexts}

\* The vector the model of dimension d computes for text t.
Vector(t, d) == [len |-> d, of |-> t]

\* json.Marshal / json.Unmarshal of a []float32.
Marshal(v) == [json |-> v]
Unmarshal(data) == data.json

\* No vector, and the absent cache entry (redis.Nil).
NoVector == [len |-> 0, of |-> <<>>]
NoEntry == [json |-> NoVector]

IdleEmbed == [pc |-> "idle", text |-> <<>>, vec |-> NoVector, ret |-> "", cached |-> FALSE]

EmbedInit ==
  /\ embCfg = [dimension |-> 2, useCache |-> TRUE]
  /\ embCache = [k \in CacheKeys |-> NoEntry]
  /\ embed = [e \in Embedders |-> IdleEmbed]
  /\ embedLog = [t \in EmbedTexts |-> NoVector]

\* NewEmbeddingService: the process starts with its configuration; the calls
\* of the previous process are gone, the Redis entries are not.
NewEmbeddingService(d, c) ==
  /\ embCfg' = [dimension |-> d, useCache |-> c]
  /\ embed' = [e \in Embedders |-> IdleEmbed]
  /\ UNCHANGED <<embCache, embedLog>>
  /\ UNCHANGED <<adapterVars, ops, dbVars, chatVars, chunkVars, otherVars>>

\* EmbedText is entered.
EmbedCall(e, t) ==
  /\ embed[e].pc = "idle"
  /\ embed' = [embed EXCEPT ![e] =
                 [IdleEmbed EXCEPT !.pc = IF embCfg.useCache THEN "lookup" ELSE "generate",
                                   !.text = t]]
  /\ UNCHANGED <<embCfg, embCache, embedLog>>
  /\ UNCHANGED <<adapterVars, ops, dbVars, chatVars, chunkVars, otherVars>>

\* GetCachedEmbedding: a stored entry is returned as it is; a missing entry
\* or a Redis error goes on to the model.
EmbedLookup(e) ==
  /\ embed[e].pc = "lookup"
  /\ \E redisOk \in BOOLEAN :
       LET data == embCache[hashString(embed[e].text)]
       IN embed' = [embed EXCEPT ![e] =
                      IF redisOk /\ data # NoEntry
                      THEN [@ EXCEPT !.pc = "done", !.vec = Unmarshal(data),
                                     !.ret = "ok", !.cached = TRUE]
                      ELSE [@ EXCEPT !.pc = "generate"]]
  /\ UNCHANGED <<embCfg, embCache, embedLog>>
  /\ UNCHANGED <<adapterVars, ops, dbVars, chatVars, chunkVars, otherVars>>

\* generateEmbedding: the request may fail; a response whose length is not
\* the configured dimension is an error.
generateEmbedding(e) ==
  /\ embed[e].pc = "generate"
  /\ \E failed \in BOOLEAN, answer \in Dims :
       embed' = [embed EXCEPT ![e] =
                   IF failed
                   THEN [@ EXCEPT !.pc = "done", !.ret = "request_failed"]
                   ELSE IF answer # embCfg.dimension
                   THEN [@ EXCEPT !.pc = "done", !.ret = "dimension_mismatch"]
                   ELSE [@ EXCEPT !.pc = IF embCfg.useCache THEN "store" ELSE "done",
                                  !.vec = Vector(embed[e].text, answer),
                                  !.ret = "ok"]]
  /\ UNCHANGED <<embCfg, embCache, embedLog>>
  /\ UNCHANGED <<adapterVars, ops, dbVars, chatVars, chunkVars, otherVars>>

\* CacheEmbedding, whose error is only logged; the vector is returned.
EmbedStore(e) ==
  /\ embed[e].pc = "store"
  /\ \E redisOk \in BOOLEAN :
       LET t == embed[e].text
       IN /\ embCache' = IF redisOk
                         THEN [embCache EXCEPT ![hashString(t)] = Marshal(embed[e].vec)]
                         ELSE embCache
          /\ embedLog' = IF redisOk /\ embedLog[t] = NoVector
                         THEN [embedLog EXCEPT ![t] = embed[e].vec]
                         ELSE embedLog
  /\ embed' = [embed EXCEPT ![e] = [@ EXCEPT !.pc = "done"]]
  /\ UNCHANGED embCfg
  /\ UNCHANGED <<adapterVars, ops, dbVars, chatVars, chunkVars, otherVars>>

\* EmbedText has returned.
EmbedReturn(e) ==
  /\ embed[e].pc = "done"
  /\ embed' = [embed EXCEPT ![e] = IdleEmbed]
  /\ UNCHANGED <<embCfg, embCache, embedLog>>
  /\ UNCHANGED <<adapterVars, ops, dbVars, chatVars, chunkVars, otherVars>>

\* The entry's seven days are over.
EmbedExpire(k) ==
  /\ embCache[k] # NoEntry
  /\ embCache' = [embCache EXCEPT ![k] = NoEntry]
  /\ embedLog' = [t \in EmbedTexts |->
                    IF hashString(t) = k THEN NoVector ELSE embedLog[t]]
  /\ UNCHANGED <<embCfg, embed>>
  /\ UNCHANGED <<adapterVars, ops, dbVars, chatVars, chunkVars, otherVars>>

(***************************************************************************)
(* Conversation cache and chat requests: initial state.                    *)
(***************************************************************************)

IdleTurn == [mode |-> "none", pc |-> "idle", conv |-> "", msg |-> <<>>,
             conv_msgs |-> <<>>, fullReply |-> <<>>, events |-> <<>>,
             pending |-> <<>>, ended |-> "", isNew |-> FALSE, saved |-> FALSE,
             user |-> 0, convUser |-> 0]

ChatInit ==
  /\ cache = [c \in Convs |-> <<>>]
  /\ owner = [c \in Convs |-> 0]
  /\ history = [c \in Convs |-> 0]
  /\ turn = [t \in Turns |-> IdleTurn]

(***************************************************************************)
(* chat.Service.Chat: one non-streaming turn.                              *)
(***************************************************************************)

UserMsg(m) == [role |-> "user", content |-> m]
AssistantMsg(r) == [role |-> "assistant", content |-> r]

\* db.GetConversation: the messages under conversation:{id}; no key reads
\* as nil, which getOrCreateConversation turns into an empty conversation.
GetConversation(c) == cache[c]

\* The UserID of the conversation a request works on: that of the stored
\* conversation, or the caller's for the one created when there is no key.
ConvUserID(c, u) == IF GetConversation(c) = <<>> THEN u ELSE owner[c]

\* db.SaveConversation: SET of the whole marshalled conversation, its
\* UserID included.
SaveConversation(c, u, msgs) ==
  /\ cache' = [cache EXCEPT ![c] = msgs]
  /\ owner' = [owner EXCEPT ![c] = u]

\* The turn's goroutines have returned: of its locals only what the client
\* has seen (the events, the outcome) is kept until the slot is reused.
EndTurn(t, how, ok) ==
  turn' = [turn EXCEPT ![t] =
             [IdleTurn EXCEPT !.mode = turn[t].mode, !.pc = "done",
                              !.conv = turn[t].conv, !.events = turn[t].events,
                              !.ended = how, !.saved = ok]]

\* getOrCreateConversation, then the user message is appended to the copy
\* this request holds.
ChatStart(t, c, m, u) ==
  /\ turn[t].pc = "idle"
  /\ Len(cache[c]) + 2 <= MaxMsgs
  /\ history[c] < MaxHistory
  /\ \E ok \in BOOLEAN :
       turn' = [turn EXCEPT ![t] =
                  IF ok
                  THEN [IdleTurn EXCEPT !.mode = "chat", !.pc = "ch_gen", !.conv = c,
                          !.msg = m, !.isNew = (GetConversation(c) = <<>>),
                          !.user = u, !.convUser = ConvUserID(c, u),
                          !.conv_msgs = Append(GetConversation(c), UserMsg(m))]
                  ELSE [IdleTurn EXCEPT !.mode = "chat", !.pc = "done", !.conv = c,
                          !.msg = m, !.ended = "get_failed"]]
  /\ UNCHANGED <<cache, owner, history>>
  /\ UNCHANGED <<adapterVars, ops, dbVars, restVars>>

\* generateReply; on success the assistant message is appended to the copy.
ChatGenerate(t) ==
  /\ turn[t].pc = "ch_gen"
  /\ \/ \E r \in Replies :
          turn' = [turn EXCEPT ![t] =
                     [@ EXCEPT !.pc = "ch_save", !.fullReply = r,
                               !.conv_msgs = Append(@, AssistantMsg(r))]]
     \/ EndTurn(t, "generate_failed", FALSE)
  /\ UNCHANGED <<cache, owner, history>>
  /\ UNCHANGED <<adapterVars, ops, dbVars, restVars>>

\* SaveConversation (an error is logged only), then the ChatHistory row when
\* the copy holds exactly two messages.
ChatSave(t) ==
  /\ turn[t].pc = "ch_save"
  /\ \E ok \in BOOLEAN :
       /\ IF ok THEN SaveConversation(turn[t].conv, turn[t].convUser, turn[t].conv_msgs)
                ELSE UNCHANGED <<cache, owner>>
       /\ EndTurn(t, "ok", ok)
  /\ history' = IF Len(turn[t].conv_msgs) = 2
                THEN [history EXCEPT ![turn[t].conv] = @ + 1]
                ELSE history
  /\ UNCHANGED <<adapterVars, ops, dbVars, restVars>>

(***************************************************************************)
(* ChatHandler.ChatStream and saveStreamConversation: one streaming turn.  *)
(***************************************************************************)

\* chat.Service.ChatStream: the conversation is loaded and the user message
\* appended to a copy that is dropped on return; the reader is opened.
StreamStart(t, c, m, u) ==
  /\ turn[t].pc = "idle"
  /\ Len(cache[c]) + 2 <= MaxMsgs
  /\ history[c] < MaxHistory
  /\ \/ \E s \in Streams :
          turn' = [turn EXCEPT ![t] =
                     [IdleTurn EXCEPT !.mode = "stream", !.pc = "st_recv",
                                      !.conv = c, !.msg = m, !.pending = s,
                                      !.user = u]]
     \/ turn' = [turn EXCEPT ![t] =
                   [IdleTurn EXCEPT !.mode = "stream", !.pc = "done",
                                    !.conv = c, !.ended = "start_failed"]]
  /\ UNCHANGED <<cache, owner, history>>
  /\ UNCHANGED <<adapterVars, ops, dbVars, restVars>>

\* strings.Builder.WriteString
WriteString_Prepend(full, s) == s \o full

WriteString(full, s) == full \o s

\* One Recv that returns a chunk: a non-empty Content is written to fullReply
\* and sent as a 'content' event.
StreamRecv(t) ==
  /\ turn[t].pc = "st_recv"
  /\ turn[t].pending # <<>>
  /\ LET tok == Head(turn[t].pending) IN
       turn' = [turn EXCEPT ![t] =
                  IF tok # <<>>
                  THEN [@ EXCEPT !.pending = Tail(@),
                                 !.fullReply = WriteString(@, tok),
                                 !.events = Append(@, tok)]
                  ELSE [@ EXCEPT !.pending = Tail(@)]]
  /\ UNCHANGED <<cache, owner, history>>
  /\ UNCHANGED <<adapterVars, ops, dbVars, restVars>>

\* The Recv that returns an error: io.EOF once the stream is exhausted, or
\* at any point another stream error or the request context's cancellation.
\* Each leaves the loop by break, and the saving goroutine is started.
StreamEnd(t, how) ==
  /\ turn[t].pc = "st_recv"
  /\ how = "eof" => turn[t].pending = <<>>
  /\ turn' = [turn EXCEPT ![t] =
                [@ EXCEPT !.pc = "st_get", !.ended = how, !.pending = <<>>]]
  /\ UNCHANGED <<cache, owner, history>>
  /\ UNCHANGED <<adapterVars, ops, dbVars, restVars>>

\* saveStreamConversation up to the assistant message: GetConversation; for
\* no key, a new conversation with the user message and its ChatHistory row.
StreamSaveGet(t) ==
  /\ turn[t].pc = "st_get"
  /\ \/ /\ EndTurn(t, turn[t].ended, FALSE)
        /\ UNCHANGED history
     \/ /\ GetConversation(turn[t].conv) = <<>>
        /\ turn' = [turn EXCEPT ![t] =
                      [@ EXCEPT !.pc = "st_put", !.isNew = TRUE,
                                !.convUser = turn[t].user,
                                !.conv_msgs = <<UserMsg(turn[t].msg)>>]]
        /\ history' = [history EXCEPT ![turn[t].conv] = @ + 1]
     \/ /\ GetConversation(turn[t].conv) # <<>>
        /\ turn' = [turn EXCEPT ![t] =
                      [@ EXCEPT !.pc = "st_put", !.isNew = FALSE,
                                !.convUser = owner[turn[t].conv],
                                !.conv_msgs = GetConversation(turn[t].conv)]]
        /\ UNCHANGED history
  /\ UNCHANGED <<cache, owner>>
  /\ UNCHANGED <<adapterVars, ops, dbVars, restVars>>

\* saveStreamConversation from the assistant message on: it is appended and
\* the conversation is saved (an error is logged only).
StreamSavePut(t) ==
  /\ turn[t].pc = "st_put"
  /\ \E ok \in BOOLEAN :
       /\ IF ok
          THEN SaveConversation(turn[t].conv, turn[t].convUser,
                 Append(turn[t].conv_msgs, AssistantMsg(turn[t].fullReply)))
          ELSE UNCHANGED <<cache, owner>>
       /\ EndTurn(t, turn[t].ended, ok)
  /\ UNCHANGED history
  /\ UNCHANGED <<adapterVars, ops, dbVars, restVars>>

\* The turn is over; the request slot is free again.
TurnReturn(t) ==
  /\ turn[t].pc = "done"
  /\ turn' = [turn EXCEPT ![t] = IdleTurn]
  /\ UNCHANGED <<cache, owner, history>>
  /\ UNCHANGED <<adapterVars, ops, dbVars, restVars>>

(***************************************************************************)
(* DocumentProcessor.ProcessText: trimming, the two splitters and the      *)
(* numbering of the emitted chunks. A content is its sequence of bytes.    *)
(***************************************************************************)

IsSpace(c) == c \in {" ", "\n"}

RECURSIVE TrimLeft(_)
TrimLeft(s) ==
  IF s = <<>> THEN s ELSE IF IsSpace(Head(s)) THEN TrimLeft(Tail(s)) ELSE s

RECURSIVE TrimRight(_)
TrimRight(s) ==
  IF s = <<>> THEN s
  ELSE IF IsSpace(s[Len(s)]) THEN TrimRight(SubSeq(s, 1, Len(s) - 1)) ELSE s

\* strings.TrimSpace
TrimSpace(s) == TrimRight(TrimLeft(s))

\* The for loop of splitByLength from the given start and iteration count,
\* chunks being appended trimmed.
RECURSIVE LengthLoop(_, _, _, _, _, _)
LengthLoop(content, size, overlap, start, iteration, chunks) ==
  LET n == Len(content)
      capped == Min(start + size, n)
      end == IF capped < n THEN BoundaryEnd(content, start, capped) ELSE capped
      more == Append(chunks, TrimSpace(SubSeq(content, start + 1, end)))
  IN IF ~(start < n) THEN chunks
     ELSE IF iteration + 1 > MaxIterations THEN chunks
     ELSE IF end >= n THEN more
     ELSE LengthLoop(content, size, overlap, NextStart(start, end, overlap),
                     iteration + 1, more)

splitByLength(content, size, overlap) ==
  IF Len(content) <= size THEN <<content>>
  ELSE LengthLoop(content, size, overlap, 0, 0, <<>>)

\* strings.Split(content, "\n\n"): cut at each pair of newlines, left to
\* right.
RECURSIVE SplitParagraphs(_, _, _, _)
SplitParagraphs(s, i, cur, acc) ==
  IF i > Len(s) THEN Append(acc, cur)
  ELSE IF i < Len(s) /\ s[i] = "\n" /\ s[i + 1] = "\n"
  THEN SplitParagraphs(s, i + 2, <<>>, Append(acc, cur))
  ELSE SplitParagraphs(s, i + 1, Append(cur, s[i]), acc)

\* The buffer is flushed with no regard to the separator.
FlushNeeded_NoSeparator(currentSize, paraSize, size) ==
  currentSize + paraSize > size /\ currentSize > 0

\* currentSize+paraSize+2 > p.chunkSize && currentSize > 0
FlushNeeded(currentSize, paraSize, size) ==
  currentSize + paraSize + 2 > size /\ currentSize > 0

\* The paragraph loop of splitBySemantic; currentChunk is the builder's
\* content and currentSize its running length.
RECURSIVE SemanticLoop(_, _, _, _, _, _, _)
SemanticLoop(paragraphs, i, currentChunk, currentSize, chunks, size, overlap) ==
  IF i > Len(paragraphs)
  THEN IF currentSize > 0 THEN Append(chunks, currentChunk) ELSE chunks
  ELSE LET para == TrimSpace(paragraphs[i])
           paraSize == Len(para)
           saved == IF currentSize > 0 THEN Append(chunks, currentChunk) ELSE chunks
           flush == FlushNeeded(currentSize, paraSize, size)
           kept == IF flush THEN <<>> ELSE currentChunk
           keptSize == IF flush THEN 0 ELSE currentSize
       IN IF para = <<>>
          THEN SemanticLoop(paragraphs, i + 1, currentChunk, currentSize, chunks,
                            size, overlap)
          ELSE IF paraSize > size
          THEN SemanticLoop(paragraphs, i + 1, <<>>, 0,
                            saved \o splitByLength(para, size, overlap), size, overlap)
          ELSE SemanticLoop(paragraphs, i + 1,
                            (IF keptSize > 0 THEN kept \o <<"\n", "\n">> ELSE kept) \o para,
                            (IF keptSize > 0 THEN keptSize + 2 ELSE keptSize) + paraSize,
                            IF flush THEN Append(chunks, currentChunk) ELSE chunks,
                            size, overlap)

splitBySemantic(content, size, overlap) ==
  SemanticLoop(SplitParagraphs(content, 1, <<>>, <<>>), 1, <<>>, 0, <<>>, size, overlap)

\* The loop that builds the schema.Documents: blank chunks are skipped, the
\* others carry the loop index and len(chunks).
RECURSIVE MakeDocuments(_, _, _)
MakeDocuments(chunks, i, documents) ==
  IF i > Len(chunks) THEN documents
  ELSE IF TrimSpace(chunks[i]) = <<>>
  THEN MakeDocuments(chunks, i + 1, documents)
  ELSE MakeDocuments(chunks, i + 1,
         Append(documents, [content |-> chunks[i], chunk_index |-> i - 1,
                            total_chunks |-> Len(chunks)]))

\* p.chunkingStrategy; any value other than these two takes the default
\* branch, which is the length strategy again.
Strategies == {"length", "semantic"}

\* The contents ProcessText is called with.
Contents == UNION {[1 .. n -> {"x", " ", "\n"}] : n \in 0 .. MaxContentLen}

\* The processor's <<chunkSize, chunkOverlap>>.
ProcessConfigs == ((1 .. MaxChunkSize) \cup {ExampleSize}) \X {0, 1}

IdleProcess == [pc |-> "idle", content |-> <<>>, strategy |-> "", size |-> 0,
                overlap |-> 0, chunks |-> <<>>, documents |-> <<>>, err |-> ""]

ProcessInit == processed = IdleProcess

\* ProcessText from entry to return.
ProcessText(content, strategy, size, overlap) ==
  /\ processed.pc = "idle"
  /\ LET trimmed == TrimSpace(content)
         chunks == IF strategy = "semantic"
                   THEN splitBySemantic(trimmed, size, overlap)
                   ELSE splitByLength(trimmed, size, overlap)
         args == [IdleProcess EXCEPT !.pc = "done", !.content = content,
                                     !.strategy = strategy, !.size = size,
                                     !.overlap = overlap]
     IN processed' =
          IF trimmed = <<>>
          THEN [args EXCEPT !.err = "empty content"]
          ELSE [args EXCEPT !.chunks = chunks,
                            !.documents = MakeDocuments(chunks, 1, <<>>)]
  /\ UNCHANGED <<coreVars, sd, rag, titled, fb, sysconf>>

\* The caller has taken the result.
ProcessReturn ==
  /\ processed.pc = "done"
  /\ processed' = IdleProcess
  /\ UNCHANGED <<coreVars, sd, rag, titled, fb, sysconf>>

(***************************************************************************)
(* Service.SearchDocuments over MilvusRetriever.Retrieve.                  *)
(***************************************************************************)

\* The topK arguments of SearchDocuments: none, fewer and more than the
\* configured default.
TopKArgs == {0, 1, TopK + 1}

\* The orders in which the rows of a result can be ranked.
Rankings(hits) ==
  {f \in [1 .. Cardinality(hits) -> hits] :
     \A i, j \in 1 .. Cardinality(hits) : i # j => f[i] # f[j]}

IdleSearch == [pc |-> "idle", kb |-> 0, asked |-> 0, topK |-> 0,
               retrieved |-> <<>>, docs |-> <<>>, err |-> ""]

SearchInit == sd = [a \in Callers |-> IdleSearch]

\* SearchDocuments up to its call of Retrieve: topK <= 0 becomes the
\* configured default; Retrieve is entered with the query and kbID only.
SearchDocuments(a, k, topK) ==
  /\ sd[a].pc = "idle"
  /\ ops[a].pc = "idle"
  /\ sd' = [sd EXCEPT ![a] =
              [IdleSearch EXCEPT !.pc = "retrieve", !.kb = k, !.asked = topK,
                                 !.topK = IF topK <= 0 THEN TopK ELSE topK]]
  /\ ops' = [ops EXCEPT ![a] =
               [IdleOp EXCEPT !.kind = "search", !.pc = "check", !.kb = k]]
  /\ UNCHANGED <<nonOpsVars, processed, rag, titled, fb, sysconf>>

\* Retrieve has returned: its error is wrapped and returned; its documents,
\* in the order of the search result, are cut to the first topK.
SearchTruncate(a) ==
  /\ sd[a].pc = "retrieve"
  /\ ops[a].pc = "done"
  /\ \E ranked \in Rankings(ops[a].hits) :
       sd' = [sd EXCEPT ![a] =
                IF ops[a].ret # "ok"
                THEN [@ EXCEPT !.pc = "done", !.err = "failed to retrieve documents"]
                ELSE [@ EXCEPT !.pc = "done", !.retrieved = ranked,
                               !.docs = IF Len(ranked) > sd[a].topK
                                        THEN SubSeq(ranked, 1, sd[a].topK)
                                        ELSE ranked]]
  /\ ops' = [ops EXCEPT ![a] = IdleOp]
  /\ UNCHANGED <<nonOpsVars, processed, rag, titled, fb, sysconf>>

\* SearchDocuments has returned.
SearchReturn(a) ==
  /\ sd[a].pc = "done"
  /\ sd' = [sd EXCEPT ![a] = IdleSearch]
  /\ UNCHANGED <<coreVars, processed, rag, titled, fb, sysconf>>

\* An adapter method called directly returns.
OpReturnDirect(a) ==
  /\ sd[a].pc = "idle"
  /\ OpReturn(a)

(***************************************************************************)
(* chat.Service.buildRAGContext. A document is the length of its content,  *)
(* taken to be ASCII without surrounding whitespace; the context is        *)
(* recorded by its length in bytes, which the code tests, and in           *)
(* characters.                                                             *)
(***************************************************************************)

\* len(doc.Content) of the retrieved documents.
DocLens == {0, 1, 1000, 2990, 5000}

DocLists == UNION {[1 .. n -> DocLens] : n \in 0 .. MaxDocs}

\* fmt.Sprintf("文档 %d:\n", i+1) for i+1 < 10: two CJK characters of three
\* bytes each, a space, one digit, a colon and a newline.
HeaderBytes == 10
HeaderChars == 6

\* The loop from the i-th document on: header, content and "\n\n" are
\* written, then the loop stops once context.Len() is beyond the limit.
RECURSIVE ContextLoop(_, _, _)
ContextLoop(list, i, context) ==
  IF i > Len(list) THEN context
  ELSE LET written == [bytes |-> context.bytes + HeaderBytes + list[i] + 2,
                       chars |-> context.chars + HeaderChars + list[i] + 2]
       IN IF written.bytes > ContextLimit THEN written
          ELSE ContextLoop(list, i + 1, written)

\* strings.TrimSpace(context.String()): the final "\n\n" goes, and so does
\* nothing else since a written context starts with the header.
buildRAGContext(list) ==
  LET context == ContextLoop(list, 1, [bytes |-> 0, chars |-> 0])
  IN IF context.bytes = 0 THEN context
     ELSE [bytes |-> context.bytes - 2, chars |-> context.chars - 2]

IdleRag == [pc |-> "idle", list |-> <<>>, context |-> [bytes |-> 0, chars |-> 0]]

RagInit == rag = IdleRag

\* buildRAGContext from entry to return.
BuildContext(list) ==
  /\ rag.pc = "idle"
  /\ rag' = [pc |-> "done", list |-> list, context |-> buildRAGContext(list)]
  /\ UNCHANGED <<coreVars, processed, sd, titled, fb, sysconf>>

\* The context has been put into the prompt.
BuildReturn ==
  /\ rag.pc = "done"
  /\ rag' = IdleRag
  /\ UNCHANGED <<coreVars, processed, sd, titled, fb, sysconf>>

(***************************************************************************)
(* The title of a chat_histories row, as saveConversationHistory and       *)
(* saveStreamConversation compute it. A message is its sequence of bytes.  *)
(***************************************************************************)

\* The first user messages: one of each length.
FirstMessages == {[i \in 1 .. n |-> "m"] : n \in 0 .. MaxMessageLen}

\* The two places that insert the row.
HistoryPaths == {"chat", "stream"}

\* title := firstMessage; if len(title) > 50 { title = title[:50] + "..." }
\* The same statements appear on both paths.
Title(path, message) ==
  IF Len(message) > TitleLimit
  THEN SubSeq(message, 1, TitleLimit) \o <<".", ".", ".">>
  ELSE message

IdleTitle == [pc |-> "idle", path |-> "", message |-> <<>>, title |-> <<>>]

TitleInit == titled = IdleTitle

\* The ChatHistory row of a new conversation is built and inserted.
SaveHistory(path, message) ==
  /\ titled.pc = "idle"
  /\ titled' = [pc |-> "done", path |-> path, message |-> message,
                title |-> Title(path, message)]
  /\ UNCHANGED <<coreVars, processed, sd, rag, fb, sysconf>>

SaveHistoryReturn ==
  /\ titled.pc = "done"
  /\ titled' = IdleTitle
  /\ UNCHANGED <<coreVars, processed, sd, rag, fb, sysconf>>

(***************************************************************************)
(* The reply given when no chat model is configured: the string of         *)
(* generateReply and the fallbackStreamReader of generateStreamReply. A    *)
(* reply is its sequence of characters, "w" standing for any character     *)
(* that is not white space.                                                *)
(***************************************************************************)

\* s.extractKeyPoints(ragContext) for a non-empty context, which
\* buildRAGContext has trimmed.
KeyPoints ==
  {k \in UNION {[1 .. n -> {"w", " ", "\n"}] : n \in 1 .. MaxKeyPointsLen} :
     TrimSpace(k) = k}

\* The fallback reply: the fixed sentence, or the sentence, the key points
\* and the note, each separated by "\n\n".
FallbackResponse(ragContext) ==
  IF ragContext # <<>>
  THEN <<"w", "\n", "\n">> \o ragContext \o <<"\n", "\n", "w">>
  ELSE <<"w">>

\* strings.Fields: the maximal runs of characters that are not white space.
RECURSIVE Fields(_, _, _, _)
Fields(s, i, cur, acc) ==
  IF i > Len(s) THEN IF cur = <<>> THEN acc ELSE Append(acc, cur)
  ELSE IF IsSpace(s[i])
  THEN Fields(s, i + 1, <<>>, IF cur = <<>> THEN acc ELSE Append(acc, cur))
  ELSE Fields(s, i + 1, Append(cur, s[i]), acc)

IdleFallback == [pc |-> "idle", reply |-> <<>>, words |-> <<>>, current |-> 0,
                 closed |-> FALSE, received |-> <<>>, eof |-> FALSE]

FallbackInit == fb = IdleFallback

\* The same message and context go to generateReply, which returns the
\* reply, and to generateStreamReply, which hands it to
\* createFallbackStreamReader.
createFallbackStreamReader(ragContext) ==
  /\ fb.pc = "idle"
  /\ LET response == FallbackResponse(ragContext)
     IN fb' = [IdleFallback EXCEPT !.pc = "open", !.reply = response,
                                   !.words = Fields(response, 1, <<>>, <<>>)]
  /\ UNCHANGED <<coreVars, processed, sd, rag, titled, sysconf>>

\* Recv: io.EOF when closed or out of words; otherwise the next word,
\* followed by a space unless it is the last.
FallbackRecv ==
  /\ fb.pc = "open"
  /\ ~fb.eof
  /\ fb' = IF fb.closed \/ fb.current >= Len(fb.words)
           THEN [fb EXCEPT !.eof = TRUE]
           ELSE [fb EXCEPT !.current = @ + 1,
                           !.received =
                             @ \o fb.words[fb.current + 1]
                               \o (IF fb.current + 1 < Len(fb.words) THEN <<" ">> ELSE <<>>)]
  /\ UNCHANGED <<coreVars, processed, sd, rag, titled, sysconf>>

\* Close
FallbackClose ==
  /\ fb.pc = "open"
  /\ ~fb.closed
  /\ fb' = [fb EXCEPT !.closed = TRUE]
  /\ UNCHANGED <<coreVars, processed, sd, rag, titled, sysconf>>

\* The reader is dropped after end-of-stream.
FallbackDone ==
  /\ fb.pc = "open"
  /\ fb.eof
  /\ fb' = IdleFallback
  /\ UNCHANGED <<coreVars, processed, sd, rag, titled, sysconf>>

(***************************************************************************)
(* Configuration: config.Load from the environment, loadConfigFromDB at    *)
(* start-up, SystemHandler.UpdateConfig and config.UpdateFromDB. Three     *)
(* keys stand for the three ways UpdateFromDB treats a key.                *)
(***************************************************************************)

\* milvus_address is applied when non-empty; ollama_url whenever present;
\* chunk_size whenever present and strconv.Atoi accepts it.
ConfigKeys == {"milvus_address", "ollama_url", "chunk_size"}

\* The keys loadConfigFromDB counts as overrides (of those modelled).
OverrideKeys == {"milvus_address", "ollama_url"}

\* No row for the key.
NoRow == "<absent>"

\* The values a request can store under a key.
ConfigValues(k) == IF k = "chunk_size" THEN {"", "8", "x"} ELSE {"", "db"}

\* strconv.Atoi on the stored values.
Atoi(v) == CASE v = "8" -> [ok |-> TRUE, n |-> 8]
             [] OTHER   -> [ok |-> FALSE, n |-> 0]

\* config.Load: the values taken from the environment or the defaults.
EnvConfig == [k \in ConfigKeys |-> IF k = "chunk_size" THEN 500 ELSE "env"]

\* config.UpdateFromDB(configs) on the in-memory configuration c.
UpdateFromDB(configs, c) ==
  [k \in ConfigKeys |->
     CASE k = "milvus_address" ->
            IF configs[k] # NoRow /\ configs[k] # "" THEN configs[k] ELSE c[k]
       [] k = "ollama_url" ->
            IF configs[k] # NoRow THEN configs[k] ELSE c[k]
       [] k = "chunk_size" ->
            IF configs[k] # NoRow /\ Atoi(configs[k]).ok THEN Atoi(configs[k]).n ELSE c[k]]

\* loadConfigFromDB: the map of the non-empty rows is applied when at least
\* one of the counted keys is among them.
loadConfigFromDB(rows, c) ==
  LET configMap == [k \in ConfigKeys |-> IF rows[k] = "" THEN NoRow ELSE rows[k]]
      overrideCount == Cardinality({k \in OverrideKeys : configMap[k] # NoRow})
  IN IF \A k \in ConfigKeys : rows[k] = NoRow THEN c
     ELSE IF overrideCount > 0 THEN UpdateFromDB(configMap, c)
     ELSE c

\* The request bodies of UpdateConfig: values for some of the keys.
ConfigRequests ==
  {r \in [ConfigKeys -> {NoRow, "", "db", "8", "x"}] :
     /\ \E k \in ConfigKeys : r[k] # NoRow
     /\ \A k \in ConfigKeys : r[k] # NoRow => r[k] \in ConfigValues(k)}

ConfigInit ==
  sysconf = [rows |-> [k \in ConfigKeys |-> NoRow], cfg |-> EnvConfig, op |-> "start"]

\* The server process starts: config.Load, then loadConfigFromDB.
ServerStart ==
  /\ sysconf' = [sysconf EXCEPT !.cfg = loadConfigFromDB(sysconf.rows, EnvConfig),
                                !.op = "start"]
  /\ UNCHANGED <<coreVars, processed, sd, rag, titled, fb>>

\* PUT /api/system/config: the rows are saved in one transaction; when it
\* fails nothing changes; otherwise all rows are read back and handed to
\* UpdateFromDB.
UpdateConfig(req) ==
  /\ \E saved \in BOOLEAN :
       LET rows == [k \in ConfigKeys |->
                      IF req[k] # NoRow THEN req[k] ELSE sysconf.rows[k]]
       IN sysconf' = IF saved
                     THEN [rows |-> rows, cfg |-> UpdateFromDB(rows, sysconf.cfg),
                           op |-> "update"]
                     ELSE [sysconf EXCEPT !.op = "update_failed"]
  /\ UNCHANGED <<coreVars, processed, sd, rag, titled, fb>>

Init == AdapterInit /\ DBInit /\ ChatInit /\ ChunkInit /\ EmbedInit /\ ProcessInit /\ SearchInit /\ RagInit /\ TitleInit /\ FallbackInit /\ ConfigInit

(***************************************************************************)
(* The document service running against the adapter and its loop.          *)
(***************************************************************************)

\* A dial of the reconnect loop that succeeds. A dial that fails changes
\* retryDelay only, which no document operation reads: beside the document
\* operations the loop is followed through its other steps, and its back-off
\* is followed under SpecAdapter.
ConnectDialed == ConnectDial /\ UNCHANGED retryDelay

NextIngest ==
  \/ \E p \in Procs, k \in KBIds, h \in Hashes, f \in Filenames : UploadCall(p, k, h, f)
  \/ \E p \in Procs : UploadPreCheck(p)
  \/ \E p \in Procs : UploadProbe(p)
  \/ \E p \in Procs : UploadBegin(p)
  \/ \E p \in Procs : UploadProcess(p)
  \/ \E p \in Procs : UploadEmbed(p)
  \/ \E p \in Procs : UploadInsert(p)
  \/ \E p \in Procs : UploadCount(p)
  \/ \E p \in Procs, d \in DocIds : DeleteCall(p, d)
  \/ \E p \in Procs : DeleteLoad(p)
  \/ \E p \in Procs : DeleteBegin(p)
  \/ \E p \in Procs : DeleteVector(p)
  \/ \E p \in Procs : DeleteRow(p)
  \/ \E p \in Procs, k \in KBIds : DeleteKBCall(p, k)
  \/ \E p \in Procs : DeleteKBBegin(p)
  \/ \E p \in Procs : DeleteKBVector(p)
  \/ \E p \in Procs : DeleteKBRows(p)
  \/ \E p \in Procs : Return(p)
  \/ StoreDown
  \/ StoreBack
  \/ ConnectDialed
  \/ ConnectSwap
  \/ HealthProbe

SpecIngest == Init /\ [][NextIngest]_vars

(***************************************************************************)
(* Uploads whose request context may be cancelled or run out of time.      *)
(***************************************************************************)

NextUpload ==
  \/ \E p \in Procs, k \in KBIds, h \in Hashes, f \in Filenames : UploadCall(p, k, h, f)
  \/ \E p \in Procs : UploadPreCheck(p)
  \/ \E p \in Procs : UploadProbe(p)
  \/ \E p \in Procs : UploadBegin(p)
  \/ \E p \in Procs : UploadProcess(p)
  \/ \E p \in Procs : UploadEmbed(p)
  \/ \E p \in Procs : UploadInsert(p)
  \/ \E p \in Procs : UploadCount(p)
  \/ \E p \in Procs, how \in {"cancelled", "deadline"} : UploadCtxDone(p, how)
  \/ \E p \in Procs : Return(p)
  \/ StoreDown
  \/ StoreBack
  \/ ConnectDialed
  \/ ConnectSwap
  \/ HealthProbe

SpecUpload == Init /\ [][NextUpload]_vars

(***************************************************************************)
(* The adapter alone: store outages, the reconnect loop, Close.            *)
(***************************************************************************)

NextAdapter ==
  \/ StoreDown
  \/ StoreBack
  \/ ConnectDial
  \/ ConnectSwap
  \/ HealthProbe
  \/ LoopExit
  \/ Close

SpecAdapter == Init /\ [][NextAdapter]_vars

\* reconnectLoop runs in a goroutine of its own and its timer always fires:
\* a step of the loop that stays possible is eventually taken. Outages of
\* the store and Close come from outside and need not happen.
LoopFairness ==
  /\ WF_vars(ConnectDial)
  /\ WF_vars(ConnectSwap)
  /\ WF_vars(HealthProbe)
  /\ WF_vars(LoopExit)

SpecAdapterLive == Init /\ [][NextAdapter]_vars /\ LoopFairness

(***************************************************************************)
(* Chat turns, streaming and not, against the conversation cache.          *)
(***************************************************************************)

NextChat ==
  \/ \E t \in Turns, c \in Convs, m \in UserMessages, u \in OneUser :
       ChatStart(t, c, m, u)
  \/ \E t \in Turns : ChatGenerate(t)
  \/ \E t \in Turns : ChatSave(t)
  \/ \E t \in Turns, c \in Convs, m \in UserMessages, u \in OneUser :
       StreamStart(t, c, m, u)
  \/ \E t \in Turns : StreamRecv(t)
  \/ \E t \in Turns, how \in {"eof", "error", "cancel"} : StreamEnd(t, how)
  \/ \E t \in Turns : StreamSaveGet(t)
  \/ \E t \in Turns : StreamSavePut(t)
  \/ \E t \in Turns : TurnReturn(t)

\* No chat step modelled here reads the vector store: the turns are followed
\* from the start-up state in which the store is up.
InitChat == Init /\ storeUp = TRUE

SpecChat == InitChat /\ [][NextChat]_vars

(***************************************************************************)
(* Chat turns of two users, each free to name any conversation id.         *)
(***************************************************************************)

NextOwner ==
  \/ \E t \in Turns, c \in Convs, m \in UserMessages, u \in Users :
       ChatStart(t, c, m, u)
  \/ \E t \in Turns : ChatGenerate(t)
  \/ \E t \in Turns : ChatSave(t)
  \/ \E t \in Turns, c \in Convs, m \in UserMessages, u \in Users :
       StreamStart(t, c, m, u)
  \/ \E t \in Turns : StreamRecv(t)
  \/ \E t \in Turns, how \in {"eof", "error", "cancel"} : StreamEnd(t, how)
  \/ \E t \in Turns : StreamSaveGet(t)
  \/ \E t \in Turns : StreamSavePut(t)
  \/ \E t \in Turns : TurnReturn(t)

SpecOwner == InitChat /\ [][NextOwner]_vars

(***************************************************************************)
(* The adapter's methods beside the reconnect loop and Close.              *)
(***************************************************************************)

NextOps ==
  \/ \E a \in Callers, k \in VectorKBs, d \in DocIds, n \in {0, 1} :
       OpCall(a, "insert", k, d, n)
  \/ \E a \in Callers, k \in SearchKBs : OpCall(a, "search", k, 0, 0)
  \/ \E a \in Callers, k \in VectorKBs : OpCall(a, "delkb", k, 0, 0)
  \/ \E a \in Callers, d \in DocIds : OpCall(a, "deldoc", 0, d, 0)
  \/ \E a \in Callers : OpCheck(a)
  \/ \E a \in Callers : OpEmbed(a)
  \/ \E a \in Callers : OpSnapshot(a)
  \/ \E a \in Callers : OpIssue(a)
  \/ \E a \in Callers : OpReturn(a)
  \/ StoreDown
  \/ StoreBack
  \/ ConnectDialed
  \/ ConnectSwap
  \/ HealthProbe
  \/ Close

SpecOps == Init /\ [][NextOps]_vars

NextChunk ==
  \/ \E text \in Texts, c \in ChunkConfigs : ChunkCall(text, c[1], c[2])
  \/ ChunkStep
  \/ ChunkReturn

NextEmbed ==
  \/ \E d \in Dims, c \in BOOLEAN : NewEmbeddingService(d, c)
  \/ \E e \in Embedders, t \in EmbedTexts : EmbedCall(e, t)
  \/ \E e \in Embedders : EmbedLookup(e)
  \/ \E e \in Embedders : generateEmbedding(e)
  \/ \E e \in Embedders : EmbedStore(e)
  \/ \E e \in Embedders : EmbedReturn(e)
  \/ \E k \in CacheKeys : EmbedExpire(k)

SpecEmbed == Init /\ [][NextEmbed]_vars

NextSearch ==
  \/ \E a \in Callers, k \in SearchKBs, topK \in TopKArgs : SearchDocuments(a, k, topK)
  \/ \E a \in Callers : SearchTruncate(a)
  \/ \E a \in Callers : SearchReturn(a)
  \/ \E a \in Callers, k \in VectorKBs, d \in DocIds : OpCall(a, "insert", k, d, 1)
  \/ \E a \in Callers : OpCheck(a)
  \/ \E a \in Callers : OpEmbed(a)
  \/ \E a \in Callers : OpSnapshot(a)
  \/ \E a \in Callers : OpIssue(a)
  \/ \E a \in Callers : OpReturnDirect(a)
  \/ StoreDown
  \/ StoreBack
  \/ ConnectDialed
  \/ ConnectSwap
  \/ HealthProbe

SpecSearch == Init /\ [][NextSearch]_vars

NextRag ==
  \/ \E list \in DocLists : BuildContext(list)
  \/ BuildReturn

InitRag == Init /\ storeUp = TRUE

SpecRag == InitRag /\ [][NextRag]_vars

NextTitle ==
  \/ \E path \in HistoryPaths, message \in FirstMessages : SaveHistory(path, message)
  \/ SaveHistoryReturn

InitTitle == Init /\ storeUp = TRUE

SpecTitle == InitTitle /\ [][NextTitle]_vars

NextFallback ==
  \/ \E ragContext \in KeyPoints \cup {<<>>} : createFallbackStreamReader(ragContext)
  \/ FallbackRecv
  \/ FallbackClose
  \/ FallbackDone

InitFallback == Init /\ storeUp = TRUE

SpecFallback == InitFallback /\ [][NextFallback]_vars

NextConfig ==
  \/ ServerStart
  \/ \E req \in ConfigRequests : UpdateConfig(req)

InitConfig == Init /\ storeUp = TRUE

SpecConfig == InitConfig /\ [][NextConfig]_vars

NextProcess ==
  \/ \E content \in Contents, strategy \in Strategies, c \in ProcessConfigs :
       ProcessText(content, strategy, c[1], c[2])
  \/ ProcessReturn

InitProcess == Init /\ storeUp = TRUE

SpecProcess == InitProcess /\ [][NextProcess]_vars

\* The loop runs in the calling goroutine, which keeps executing it.
SpecChunk == Init /\ [][NextChunk]_vars /\ WF_vars(ChunkStep)

(***************************************************************************)
(* Properties of the document service.                                     *)
(***************************************************************************)

Quiescent == \A p \in Procs : call[p].pc \in {"idle", "done"}

\* The documents rows a reader sees: those of committed transactions.
Committed == IF ConnFree THEN docs ELSE txSnap.docs

\* C1: once every UploadDocument, DeleteDocument and DeleteKnowledgeBase call
\* has completed, each existing knowledge base's doc_count equals the number
\* of documents rows that reference it.
C1_DocCountAccurate ==
  Quiescent => \A k \in kbs : docCount[k] = Cardinality({d \in docs : d.kb = k})

\* C2: no two committed documents rows share (hash, knowledge_base_id), also
\* when uploads of the same bytes into the same knowledge base interleave.
C2_UniqueHashPerKB ==
  \A d1, d2 \in Committed : (d1.hash = d2.hash /\ d1.kb = d2.kb) => d1.id = d2.id

\* The rows the duplicate probe of request p looks for.
SameBytes(p) == {d \in docs : d.hash = call[p].hash /\ d.kb = call[p].kb}

\* What a step of an upload that meets a stored copy of its bytes may do:
\* pass the pre-checks, or end with "duplicate"; no transaction, no write.
RejectsDuplicate(p) ==
  /\ call'[p].pc \in {"up_probe", "done"}
  /\ call[p].pc = "up_probe" => call'[p].pc = "done"
  /\ call'[p].pc = "done" => call'[p].ret = "duplicate" /\ call'[p].doc = 0
  /\ dbConn' = "free"
  /\ UNCHANGED <<docs, docCount, kbs, vectors>>

\* C3 as stated: an upload of bytes already stored in the knowledge base ends
\* with "document already exists in this knowledge base" whatever its file
\* name, opens no transaction and changes no row and no vector.
C3_DuplicateAnyName ==
  [][\A p \in Procs :
       (/\ call[p].op = "upload"
        /\ call[p].pc \in {"up_check", "up_probe"}
        /\ SameBytes(p) # {}
        /\ call'[p] # call[p]) => RejectsDuplicate(p)]_vars

\* C3 amended: the same for an upload whose file name has an allowed
\* extension.
C3_DuplicateAllowedName ==
  [][\A p \in Procs :
       (/\ call[p].op = "upload"
        /\ call[p].pc \in {"up_check", "up_probe"}
        /\ call[p].fname[2] \in AllowedFileTypes
        /\ SameBytes(p) # {}
        /\ call'[p] # call[p]) => RejectsDuplicate(p)]_vars

C3_Witness ==
  \E p \in Procs : /\ call[p].op = "upload"
                   /\ call[p].pc = "done"
                   /\ call[p].ret = "duplicate"
                   /\ docCount[call[p].kb] = 1

\* C4: the step on which UploadDocument returns an error leaves no documents
\* row of that call behind and leaves every doc_count as it was.
C4_FailedUploadNoEffect ==
  [][\A p \in Procs :
       (/\ call[p].op = "upload"
        /\ call[p].pc # "done"
        /\ call'[p].pc = "done"
        /\ call'[p].ret # "ok")
       => /\ docCount' = docCount
          /\ docs' \subseteq docs
          /\ call[p].doc # 0 => ~\E d \in docs' : d.id = call[p].doc]_vars

C4_Witness ==
  \E p \in Procs : /\ call[p].op = "upload"
                   /\ call[p].pc = "done"
                   /\ call[p].ret = "index_failed"

\* C5: while a successful DeleteKnowledgeBase(k) sits completed, no documents
\* row and no vector row carries kb_id = k.
C5_KBDeleteCascade ==
  \A p \in Procs :
    (call[p].op = "delkb" /\ call[p].pc = "done" /\ call[p].ret = "ok")
      => /\ {d \in Committed : d.kb = call[p].kb} = {}
         /\ {v \in vectors : v[1] = call[p].kb} = {}

(***************************************************************************)
(* Properties of the chat turns.                                           *)
(***************************************************************************)

IsPrefix(s, t) == Len(s) <= Len(t) /\ SubSeq(t, 1, Len(s)) = s

\* C6: under any interleaving of Chat and ChatStream turns on a conversation,
\* the message sequence stored in the cache is a prefix of the sequence
\* stored after any later step: no stored message is removed, overwritten
\* or reordered.
C6_CacheAppendOnly ==
  [][\A c \in Convs : IsPrefix(cache[c], cache'[c])]_vars

RECURSIVE Concat(_)
Concat(ss) == IF ss = <<>> THEN <<>> ELSE Head(ss) \o Concat(Tail(ss))

\* The step of streaming turn t that stores its conversation.
StreamStores(t) ==
  /\ turn[t].mode = "stream"
  /\ turn[t].pc = "st_put"
  /\ turn'[t].pc = "done"
  /\ turn'[t].saved

\* C7: when the LLM stream of a /chat/stream exchange ended with clean
\* end-of-stream, the assistant message the handler stores is the
\* concatenation, in emission order, of the payloads of the 'content' events.
C7_StoredReplyIsEvents ==
  [][\A t \in Turns :
       (StreamStores(t) /\ turn[t].ended = "eof") =>
         LET stored == cache'[turn[t].conv] IN
           /\ stored # <<>>
           /\ stored[Len(stored)].role = "assistant"
           /\ stored[Len(stored)].content = Concat(turn[t].events)]_vars

C7_Witness ==
  \E t \in Turns :
    /\ turn[t].mode = "stream" /\ turn[t].pc = "done"
    /\ turn[t].ended = "eof" /\ turn[t].saved
    /\ Len(turn[t].events) = 2 /\ turn[t].events[1] # turn[t].events[2]
    /\ cache[turn[t].conv] # <<>>
    /\ cache[turn[t].conv][Len(cache[turn[t].conv])] =
         AssistantMsg(Concat(turn[t].events))

\* C8: a streaming turn whose LLM stream ended with an error other than
\* end-of-stream, or whose client disconnected, writes nothing to the
\* conversation cache and creates no ChatHistory row.
C8_AbortedStreamNotPersisted ==
  [][\A t \in Turns :
       (turn[t].mode = "stream" /\ turn[t].ended \in {"error", "cancel"}
          /\ turn[t].pc \in {"st_get", "st_put"} /\ turn'[t] # turn[t]) =>
         (cache' = cache /\ history' = history)]_vars

\* C9: a streaming turn that ended cleanly on a conversation already in the
\* cache with messages M stores M followed by the turn's user message and
\* then the assistant reply, the pair the Chat path appends.
C9_StreamAppendsPair ==
  [][\A t \in Turns :
       (StreamStores(t) /\ turn[t].ended = "eof" /\ cache[turn[t].conv] # <<>>) =>
         cache'[turn[t].conv] =
           cache[turn[t].conv]
             \o <<UserMsg(turn[t].msg), AssistantMsg(Concat(turn[t].events))>>]_vars

(***************************************************************************)
(* Properties of the adapter's reconnect loop.                             *)
(***************************************************************************)

\* C10: the wait before a connect attempt never exceeds the five-minute cap,
\* and whenever the store is reachable, the adapter is not closed and it is
\* not connected, the loop alone eventually sets isConnected, unless the
\* store goes down again or the adapter is closed first.
C10_LoopReconnects ==
  /\ [](retryDelay \in Second .. MaxRetryDelay)
  /\ (storeUp /\ ~closed /\ ~isConnected) ~> (isConnected \/ ~storeUp \/ closed)

\* The store came back after the delay had grown to its cap, and the dial of
\* the next attempt has succeeded.
C10_Witness ==
  /\ loop = "swap"
  /\ retryDelay = MaxRetryDelay
  /\ storeUp /\ ~closed /\ ~isConnected

(***************************************************************************)
(* Properties of the document service and the chat turns that depend on    *)
(* the adapter's connection state and on the chat history.                 *)
(***************************************************************************)

\* C13: an UploadDocument whose pre-checks run while the adapter is not
\* connected fails there with 'vector database is not available': no
\* knowledge-base lookup, no read, no transaction and no documents row.
C13_UploadUnavailableFirst ==
  [][\A p \in Procs :
       (call[p].op = "upload" /\ call[p].pc = "up_check" /\ ~isConnected
          /\ call'[p] # call[p]) =>
         (call'[p].pc = "done" /\ call'[p].ret = "unavailable")]_vars

\* C17: at most one chat_histories row exists per conversation id, whatever
\* Chat and ChatStream turns ran, failed cache writes and concurrent first
\* turns included.
C17_OneHistoryRow == \A c \in Convs : history[c] <= 1

\* C19: DeleteDocument on an existing document goes through when the adapter
\* is not connected: the step that meets the disconnected adapter does not
\* end the call with an error.
C19_DeleteWhenDisconnected ==
  [][\A p \in Procs :
       (call[p].op = "deldoc" /\ call[p].pc = "dd_begin" /\ ~isConnected
          /\ call'[p] # call[p]) =>
         ~(call'[p].pc = "done" /\ call'[p].ret # "ok")]_vars

(***************************************************************************)
(* Properties of the adapter's methods.                                    *)
(***************************************************************************)

\* C11: no adapter operation has a call in flight on a client handle that a
\* reconnect swap has closed: the handle an operation snapshotted stays open
\* until its call returns.
C11_HandleOpenDuringCall ==
  \A a \in Callers : ops[a].pc = "call" => ops[a].handle # "swapped"

\* C12: a method invoked while the connected flag is false, whatever its
\* arguments (an empty chunk list included), returns the not-connected error
\* and makes no embedding request and no vector-store call.
C12_NotConnectedFailFast ==
  [][\A a \in Callers :
       (ops[a].pc = "check" /\ ~isConnected /\ ops'[a] # ops[a]) =>
         /\ ops'[a].pc = "done"
         /\ ops'[a].ret = "not_connected"
         /\ ops'[a].embeds = 0
         /\ ops'[a].calls = 0]_vars

\* C18: a search with kb_id = k > 0 returns no chunk whose stored kb_id
\* differs from k, whatever the index holds; with kb_id = 0 every row is a
\* candidate.
C18_SearchFiltersKB ==
  /\ \A a \in Callers :
       (ops[a].kind = "search" /\ ops[a].pc = "done" /\ ops[a].ret = "ok"
          /\ ops[a].kb > 0) =>
         \A v \in ops[a].hits : v[1] = ops[a].kb
  /\ \A k \in SearchKBs : k = 0 => SearchFilter(k) = vectors

\* A filtered search has returned hits while the index also holds rows of
\* another knowledge base.
C18_Witness ==
  \E a \in Callers :
    /\ ops[a].kind = "search" /\ ops[a].pc = "done" /\ ops[a].ret = "ok"
    /\ ops[a].kb = 1
    /\ ops[a].hits # {}
    /\ \E v \in vectors : v[1] = 2

(***************************************************************************)
(* Properties of the length chunker.                                       *)
(***************************************************************************)

\* C14: for every text, chunk size >= 1 and overlap >= 0 (overlap >= size
\* included) the chunker terminates, the window start strictly increases on
\* every iteration, the number of iterations is at most the text's length,
\* and a non-empty text yields at least one chunk.
C14_ChunkerTerminates ==
  /\ [](chunker.pc # "idle" => chunker.iteration <= Len(chunker.text))
  /\ []((chunker.pc = "done" /\ chunker.text # <<>>) =>
          (Len(chunker.windows) >= 1 /\ Len(chunker.windows) <= Len(chunker.text)))
  /\ [][(chunker.pc = "loop" /\ chunker'.pc = "loop") =>
          chunker'.start > chunker.start]_vars
  /\ (chunker.pc = "loop" ~> chunker.pc = "done")

\* The example: size 10 and overlap 20 on the 100-character text has
\* finished, after more than one iteration, with between 1 and 100 chunks.
C14_Witness ==
  /\ chunker.pc = "done"
  /\ chunker.text = Unbroken(ExampleLen)
  /\ chunker.size = ExampleSize /\ chunker.overlap = ExampleOverlap
  /\ chunker.overlap >= chunker.size
  /\ chunker.iteration > 1
  /\ Len(chunker.windows) \in 1 .. ExampleLen

\* C15: the emitted windows jointly cover the text: the first starts at 0,
\* each next one starts at or before the previous one's end, and the last
\* ends at the text's length, so no tail is dropped.
C15_WindowsCoverText ==
  chunker.pc = "done" =>
    LET w == chunker.windows
    IN /\ Len(w) >= 1
       /\ w[1][1] = 0
       /\ \A i \in 2 .. Len(w) : w[i][1] <= w[i - 1][2]
       /\ w[Len(w)][2] = Len(chunker.text)

(***************************************************************************)
(* Properties of the embedding service.                                    *)
(***************************************************************************)

\* C16: every vector EmbedText returns successfully has exactly the
\* configured dimension, on the cache-hit path as on the service-call path.
C16_ReturnedDimension ==
  \A e \in Embedders :
    (embed[e].pc = "done" /\ embed[e].ret = "ok") =>
      embed[e].vec.len = embCfg.dimension

\* C20: while the cache entry of a text is present, every later EmbedText of
\* that text returns the vector its first call returned and stored, and does
\* so from the cache.
C20_WarmCacheIdentical ==
  [][\A e \in Embedders :
       (embed[e].pc = "lookup" /\ embedLog[embed[e].text] # NoVector
          /\ embCache[hashString(embed[e].text)] # NoEntry
          /\ embed'[e].pc = "done") =>
         embed'[e].vec = embedLog[embed[e].text]]_vars

(***************************************************************************)
(* Properties of the adapter's connection state.                           *)
(***************************************************************************)

\* C27: once Close() has returned the adapter never reports connected
\* again: IsConnected() is false, so later methods fail with the
\* not-connected error instead of calling the closed handle.
C27_ClosedNeverConnected == closed => ~IsConnected

\* C30: the connected flag changes only from false to true at the end of a
\* successful connect() and from true to false when the loop's health probe
\* fails; connected implies a non-nil client; a failed connect() leaves the
\* flag and the client as they were.
C30_FlagTransitions ==
  /\ [][(isConnected' # isConnected) =>
          \/ /\ ~isConnected /\ isConnected'
             /\ loop = "swap" /\ loop' = "wait" /\ client' = "open"
          \/ /\ isConnected /\ ~isConnected'
             /\ loop = "wait" /\ client # "nil"
             /\ (~storeUp \/ closed \/ client = "closed")
             /\ client' = client]_vars
  /\ [](isConnected => client # "nil")
  /\ [][(loop = "wait" /\ ~isConnected /\ loop' = "wait" /\ retryDelay' # retryDelay) =>
          (isConnected' = isConnected /\ client' = client)]_vars

\* The probe has marked a once-connected adapter disconnected and a
\* connect() has failed since: the client is the old one, the delay doubled.
C30_Witness == ~isConnected /\ client = "open" /\ retryDelay > Second

(***************************************************************************)
(* Properties of the document handlers' responses.                         *)
(***************************************************************************)

\* C21: a duplicate upload is answered with HTTP status 400.
C21_DuplicateIs400 ==
  \A p \in Procs :
    (call[p].op = "upload" /\ call[p].pc = "done" /\ call[p].ret = "duplicate") =>
      call[p].status = 400

\* C22: when the chunking step runs into index_timeout the transaction is
\* aborted and the upload is answered with HTTP status 408.
C22_IndexTimeoutIs408 ==
  [][\A p \in Procs :
       (call[p].pc = "up_process" /\ call'[p].pc = "done" /\ call'[p].ret = "timeout") =>
         /\ docs' = txSnap.docs /\ docCount' = txSnap.docCount
         /\ call'[p].status = 408]_vars

\* C23: DELETE /documents/{id} for an id that names no Document is answered
\* with HTTP status 404 and changes nothing in the relational store or the
\* vector index.
C23_DeleteMissingIs404 ==
  [][\A p \in Procs :
       (call[p].op = "deldoc" /\ call[p].pc = "dd_load" /\ call'[p] # call[p]
          /\ ~\E r \in docs : r.id = call[p].doc) =>
         /\ call'[p].pc = "done"
         /\ call'[p].status = 404
         /\ UNCHANGED <<kbs, docCount, docs, vectors>>]_vars

\* C26: however concurrent DeleteDocument calls on one document interleave,
\* doc_count goes down once in total and is never negative.
C26_DocCountNeverNegative == \A k \in KBIds : docCount[k] >= 0

\* C28: while no UploadDocument or DeleteDocument call is in progress, the
\* vector index holds rows of a doc_id only if that Document row exists.
C28_NoOrphanVectors ==
  (\A p \in Procs : call[p].op \in {"upload", "deldoc"} => call[p].pc \in {"idle", "done"}) =>
    \A v \in vectors : \E r \in docs : r.id = v[2]

\* C29: when the caller's context is done after UploadDocument opened its
\* transaction and before the commit, the transaction rolls back, the call
\* returns an error and no Document row or doc_count change is committed.
C29_CancelRollsBack ==
  [][\A p \in Procs :
       (call[p].op = "upload" /\ call[p].ctx # "live"
          /\ call[p].pc \in {"up_process", "up_add", "up_insert", "up_count"}
          /\ call'[p].pc = "done") =>
         /\ call'[p].ret # "ok"
         /\ docs' = txSnap.docs
         /\ docCount' = txSnap.docCount]_vars

(***************************************************************************)
(* Properties of chat turns: the client's view and the conversation's      *)
(* owner.                                                                  *)
(***************************************************************************)

\* The client has the complete response of the turn: the reply of Chat, or
\* the 'end' event of ChatStream, which is sent once the saving goroutine
\* has been started.
Responded(t) ==
  \/ turn[t].pc = "done"
  \/ turn[t].mode = "stream" /\ turn[t].pc \in {"st_get", "st_put"}

\* C24: when the client issues a turn on a conversation only after it has
\* the complete response of the previous one, the previous turn's messages
\* are already in the cache the new turn loads.
C24_SerialTurnsSeePrevious ==
  [][\A t, u \in Turns :
       (/\ t # u
        /\ turn[t].pc = "idle" /\ turn'[t].pc # "idle"
        /\ turn[u].pc # "idle" /\ turn[u].conv = turn'[t].conv
        /\ Responded(u) /\ turn[u].ended \in {"ok", "eof"}) =>
         (turn[u].pc = "done" /\ turn[u].saved)]_vars

\* C25: only the owning user's turns read or change a conversation: a turn
\* whose prompt holds stored messages, and every turn that writes the
\* conversation, is the owner's.
C25_OnlyOwnerUsesConversation ==
  /\ [](\A t \in Turns :
          (turn[t].pc = "ch_gen" /\ Len(turn[t].conv_msgs) > 1) =>
            turn[t].user = turn[t].convUser)
  /\ [][\A c \in Convs :
          (cache'[c] # cache[c] /\ owner[c] # 0) =>
            \E t \in Turns : /\ turn[t].conv = c
                             /\ turn[t].pc \in {"ch_save", "st_put"}
                             /\ turn'[t].pc = "done"
                             /\ turn[t].user = owner[c]]_vars

\* C31: a vector EmbedText returns was computed for exactly the text it was
\* asked for: a cache hit never hands one text the vector of another.
C31_HitIsForSameText ==
  \A e \in Embedders :
    (embed[e].pc = "done" /\ embed[e].ret = "ok") =>
      embed[e].vec.of = embed[e].text

(***************************************************************************)
(* Properties of ProcessText and its splitters.                            *)
(***************************************************************************)

\* C32: when the loop of splitByLength passes its iteration cap the split
\* fails: no list of the chunks collected so far is returned.
C32_CapIsError ==
  (chunker.pc = "done" /\ chunker.iteration > MaxIterations) =>
    chunker.windows = <<>>

\* C33: the documents ProcessText returns all have non-blank content, carry
\* a total_chunks equal to the number of documents returned, and carry the
\* indexes 0, 1, ... in the order of emission.
C33_ChunkNumbering ==
  (processed.pc = "done" /\ processed.err = "") =>
    LET d == processed.documents
    IN \A i \in 1 .. Len(d) :
         /\ TrimSpace(d[i].content) # <<>>
         /\ d[i].total_chunks = Len(d)
         /\ d[i].chunk_index = i - 1

\* The paragraphs splitBySemantic works on: the pieces between blank lines,
\* trimmed, the blank ones dropped.
RECURSIVE NonBlank(_, _, _)
NonBlank(pieces, i, acc) ==
  IF i > Len(pieces) THEN acc
  ELSE NonBlank(pieces, i + 1,
         IF TrimSpace(pieces[i]) = <<>> THEN acc ELSE Append(acc, TrimSpace(pieces[i])))

ParagraphsOf(content) == NonBlank(SplitParagraphs(content, 1, <<>>, <<>>), 1, <<>>)

\* Paragraphs i .. k joined by the two-character separator.
RECURSIVE JoinParagraphs(_, _, _)
JoinParagraphs(P, i, k) ==
  IF i = k THEN P[i] ELSE P[i] \o <<"\n", "\n">> \o JoinParagraphs(P, i + 1, k)

\* The chunks from the j-th on are the paragraphs from the i-th on, in
\* order: a paragraph longer than size as its split by length, the others
\* whole, each in one chunk, alone or joined with its neighbours.
RECURSIVE PlacedInOrder(_, _, _, _, _, _)
PlacedInOrder(P, i, chunks, j, size, overlap) ==
  IF i > Len(P) THEN j = Len(chunks) + 1
  ELSE IF Len(P[i]) > size
  THEN LET sub == splitByLength(P[i], size, overlap)
       IN /\ j + Len(sub) - 1 <= Len(chunks)
          /\ SubSeq(chunks, j, j + Len(sub) - 1) = sub
          /\ PlacedInOrder(P, i + 1, chunks, j + Len(sub), size, overlap)
  ELSE /\ j <= Len(chunks)
       /\ \E k \in i .. Len(P) :
            /\ \A m \in i .. k : Len(P[m]) <= size
            /\ chunks[j] = JoinParagraphs(P, i, k)
            /\ PlacedInOrder(P, k + 1, chunks, j + 1, size, overlap)

\* C40: under either strategy no chunk is longer than chunkSize; under the
\* semantic strategy the paragraphs come out in their order, every one that
\* fits appearing whole in exactly one chunk and the longer ones split by
\* length.
C40_ChunksWithinSize ==
  (processed.pc = "done" /\ processed.err = "") =>
    /\ \A i \in 1 .. Len(processed.chunks) :
         Len(processed.chunks[i]) <= processed.size
    /\ processed.strategy = "semantic" =>
         PlacedInOrder(ParagraphsOf(TrimSpace(processed.content)), 1,
                       processed.chunks, 1, processed.size, processed.overlap)

\* Two paragraphs that fit together only without their separator have been
\* emitted as two chunks.
C40_Witness ==
  /\ processed.pc = "done" /\ processed.strategy = "semantic"
  /\ processed.size = 3
  /\ processed.content = <<"x", "\n", "\n", "x">>
  /\ processed.chunks = << <<"x">>, <<"x">> >>

(***************************************************************************)
(* Properties of document search.                                          *)
(***************************************************************************)

\* C34: a successful SearchDocuments returns the first min(effective top-K,
\* number of matching rows) rows of the ranking, the effective top-K being
\* the requested top_k when positive and the configured default otherwise.
C34_EffectiveTopK ==
  [][\A a \in Callers :
       (sd[a].pc = "retrieve" /\ sd'[a].pc = "done" /\ sd'[a].err = "") =>
         LET effective == IF sd[a].asked > 0 THEN sd[a].asked ELSE TopK
             matching == Cardinality(SearchFilter(sd[a].kb))
         IN /\ Len(sd'[a].docs) = Min(effective, matching)
            /\ sd'[a].docs = SubSeq(sd'[a].retrieved, 1, Len(sd'[a].docs))]_vars

(***************************************************************************)
(* Properties of the reconnect loop's delay.                               *)
(***************************************************************************)

\* C35: the retry delay starts at 1 s, is always min(2^n s, 5 min) for the
\* number n of failed attempts since the last success, so lies between 1 s
\* and 5 min; a failed connect doubles it up to the cap, a successful
\* connect resets it to 1 s, and nothing else changes it.
C35_RetryDelay ==
  /\ retryDelay = Second
  /\ [](/\ Second <= retryDelay /\ retryDelay <= MaxRetryDelay
        /\ \E n \in 0 .. 9 : retryDelay = Min((2 ^ n) * Second, MaxRetryDelay))
  /\ [][(/\ loop = "wait" /\ ~isConnected /\ ~(storeUp /\ ~closed)
         /\ UNCHANGED <<storeUp, closed, loop>>) =>
          retryDelay' = Min(2 * retryDelay, MaxRetryDelay)]_vars
  /\ [][(loop = "swap" /\ loop' = "wait") => retryDelay' = Second]_vars
  /\ [][(retryDelay' # retryDelay) =>
          \/ loop = "swap" /\ loop' = "wait"
          \/ loop = "wait" /\ loop' = "wait" /\ ~isConnected]_vars

\* The delay has reached the cap after nine failed attempts.
C35_Witness == retryDelay = MaxRetryDelay /\ ~isConnected /\ loop = "wait"

(***************************************************************************)
(* Properties of the RAG context.                                          *)
(***************************************************************************)

\* C36: the context built from the retrieved documents is never longer
\* than 3,000 characters.
C36_ContextWithinLimit ==
  rag.pc = "done" => rag.context.chars <= ContextLimit

(***************************************************************************)
(* Properties of the chat history title.                                   *)
(***************************************************************************)

\* C37: on both paths the title of the row is at most 50 characters long
\* and is a prefix of the first user message.
C37_TitleIsShortPrefix ==
  titled.pc = "done" =>
    /\ Len(titled.title) <= TitleLimit
    /\ Len(titled.title) <= Len(titled.message)
    /\ titled.title = SubSeq(titled.message, 1, Len(titled.title))

(***************************************************************************)
(* Properties of the fallback reply.                                       *)
(***************************************************************************)

\* C38: the tokens the fallback stream delivers up to end-of-stream, put
\* together, are exactly the reply the non-streaming fallback returns for
\* the same message and context; and once the reader is closed Recv
\* delivers nothing but end-of-stream.
C38_StreamEqualsReply ==
  /\ []((fb.pc = "open" /\ fb.eof /\ ~fb.closed) => fb.received = fb.reply)
  /\ [][(fb.pc = "open" /\ fb.closed /\ fb'.pc = "open") =>
          fb'.received = fb.received]_vars

(***************************************************************************)
(* Properties of the configuration.                                        *)
(***************************************************************************)

\* The database holds a non-empty, well-formed value for the key.
HasDBValue(k) ==
  /\ sysconf.rows[k] \notin {NoRow, ""}
  /\ k = "chunk_size" => Atoi(sysconf.rows[k]).ok

\* That value as the configuration holds it.
DBValue(k) == IF k = "chunk_size" THEN Atoi(sysconf.rows[k]).n ELSE sysconf.rows[k]

\* C39: every key with a non-empty, well-formed database value has that
\* value in memory; after start-up every key without a database value or
\* with an empty one has the environment's value; and an UpdateConfig never
\* changes the in-memory value of a key whose row is the empty string.
C39_DatabaseOverridesEnv ==
  /\ [](\A k \in ConfigKeys : HasDBValue(k) => sysconf.cfg[k] = DBValue(k))
  /\ [](sysconf.op = "start" =>
          \A k \in ConfigKeys :
            sysconf.rows[k] \in {NoRow, ""} => sysconf.cfg[k] = EnvConfig[k])
  /\ [][sysconf'.op = "update" =>
          \A k \in ConfigKeys :
            sysconf'.rows[k] = "" => sysconf'.cfg[k] = sysconf.cfg[k]]_vars

====
